---- MODULE Spec2Model ----
(***************************************************************************)
(* Model of the software renderer of lab4_gfcs (ship/src): the            *)
(* Framebuffer (framebuffer.rs), the draw entry points render_body,        *)
(* render_rings and render_moon (main.rs, shaders.rs), the frame loop of   *)
(* main (main.rs) and the fragment-shader dispatch (shaders.rs).           *)
(*                                                                         *)
(* f32 values are modelled by integers: a finite value is an integer in a  *)
(* fixed unit (depths and pixel coordinates in whole units, colour         *)
(* channels in hundredths), +infinity and -infinity are the integers       *)
(* PosInf and NegInf, which no finite model value reaches, and NaN is a    *)
(* value of its own that every comparison rejects.                         *)
(***************************************************************************)
EXTENDS Integers, Sequences, FiniteSets, TLC

VARIABLES
    color_buffer,       \* Framebuffer.color_buffer: row-major pixel data
    depth_buffer,       \* Framebuffer.depth_buffer: Vec<f32>, row-major
    background_color,   \* Framebuffer.background_color
    current_color,      \* Framebuffer.current_color
    screen,             \* what the window shows after the last present
    lastOp,             \* the Framebuffer call that produced this state
    ret,                \* the value returned by that call
    calls,              \* number of Framebuffer calls made so far
    \* a draw entry point in progress (render_body, render_rings, render_moon)
    kind,               \* which entry point, "none" outside a draw
    phase,              \* the loop of the entry point that is running
    draw_uniforms,      \* its Uniforms (uniforms, ring_uniforms, moon_uniforms)
    vertex_array,       \* its vertex_array argument
    transformed_vertices,
    triangles,
    fragments,
    loop_i,             \* the index of the running loop
    \* main
    pc,                 \* the place main has reached
    sphere_vertex_array,
    nave_vertex_array,
    time,
    dt,
    view_matrix,
    camera_mode,
    warp_target,        \* Option<usize>: << >> is None, <<n>> is Some(n)
    warp_progress,
    show_orbits,
    planet_i,           \* the index of `for planet in &planets`
    log,                \* what the frame in progress has done so far
    \* fragment_shader as a function
    shader              \* one call: its arguments and its result

fbVars == <<color_buffer, depth_buffer, background_color, current_color>>
callVars == <<screen, lastOp, ret, calls>>
drawVars == <<kind, phase, draw_uniforms, vertex_array, transformed_vertices,
              triangles, fragments, loop_i>>
mainVars == <<pc, sphere_vertex_array, nave_vertex_array, time, dt, view_matrix,
              camera_mode, warp_target, warp_progress, show_orbits, planet_i, log>>
vars == <<fbVars, callVars, drawVars, mainVars, shader>>

----------------------------------------------------------------------------
(* f32 *)

PosInf == 1000000
NegInf == 0 - PosInf
NaN == PosInf + 1

\* a < b on f32: false as soon as one side is NaN
FLt(a, b) == a # NaN /\ b # NaN /\ a < b

\* f32::clamp(lo, hi): NaN stays NaN
FClamp(v, lo, hi) ==
    IF v = NaN THEN NaN ELSE IF v < lo THEN lo ELSE IF v > hi THEN hi ELSE v

\* `as i32` on an f32 holding a whole number: NaN gives 0, out of range saturates
I32Max == 2147483647
AsI32(v) ==
    IF v = NaN THEN 0
    ELSE IF v >= PosInf THEN I32Max
    ELSE IF v <= NegInf THEN (0 - I32Max) - 1
    ELSE v

----------------------------------------------------------------------------
(* Framebuffer *)

FbWidth == 2
FbHeight == 2

\* a colour channel of 1.0, in hundredths
ColorOne == 100

Color(r, g, b, a) == <<r, g, b, a>>
BLACK == Color(0, 0, 0, 255)
WHITE == Color(255, 255, 255, 255)
SpaceBlue == Color(5, 5, 15, 255)

InBounds(x, y) == x >= 0 /\ x < FbWidth /\ y >= 0 /\ y < FbHeight

Index(x, y) == y * FbWidth + x

PixelIndices == 0 .. (FbWidth * FbHeight - 1)

\* a quantization that does not clamp: the value wraps around at 256
ToU8_Wraps(c) ==
    IF c = NaN THEN 0 ELSE ((c * 255) \div ColorOne) % 256

\* `(c.clamp(0.0, 1.0) * 255.0) as u8`: truncation, NaN gives 0
ToU8(c) ==
    LET cl == FClamp(c, 0, ColorOne)
    IN  IF cl = NaN THEN 0 ELSE (cl * 255) \div ColorOne

\* raylib ImageDrawPixel on an R8G8B8A8 image: stores the colour, no blending
ImageDrawPixel(img, x, y, c) ==
    IF InBounds(x, y) THEN [img EXCEPT ![Index(x, y)] = c] ELSE img

\* raylib GetImageColor
ImageGetColor(img, x, y) == img[Index(x, y)]

\* Framebuffer::new
NewColorBuffer == [i \in PixelIndices |-> BLACK]
NewDepthBuffer == [i \in PixelIndices |-> PosInf]

Quantized(color) == Color(ToU8(color[1]), ToU8(color[2]), ToU8(color[3]), 255)

\* point without its depth test: the last write wins
PointFb_AlwaysWrite(fb, x, y, color, depth) ==
    IF InBounds(x, y)
    THEN [depth |-> [fb.depth EXCEPT ![Index(x, y)] = depth],
          color |-> ImageDrawPixel(fb.color, x, y, Quantized(color))]
    ELSE fb

\* point with `<=` for `<`: a write of equal depth replaces the pixel
PointFb_TieWrites(fb, x, y, color, depth) ==
    IF InBounds(x, y)
    THEN IF depth # NaN /\ fb.depth[Index(x, y)] # NaN /\ depth <= fb.depth[Index(x, y)]
         THEN [depth |-> [fb.depth EXCEPT ![Index(x, y)] = depth],
               color |-> ImageDrawPixel(fb.color, x, y, Quantized(color))]
         ELSE fb
    ELSE fb

\* point that draws the pixel before it tests the depth
PointFb_ColorFirst(fb, x, y, color, depth) ==
    IF InBounds(x, y)
    THEN [depth |-> IF FLt(depth, fb.depth[Index(x, y)])
                    THEN [fb.depth EXCEPT ![Index(x, y)] = depth]
                    ELSE fb.depth,
          color |-> ImageDrawPixel(fb.color, x, y, Quantized(color))]
    ELSE fb

\* point that clamps a position outside the buffer to the nearest pixel
PointFb_ClampsPosition(fb, x, y, color, depth) ==
    LET cx == IF x < 0 THEN 0 ELSE IF x >= FbWidth THEN FbWidth - 1 ELSE x
        cy == IF y < 0 THEN 0 ELSE IF y >= FbHeight THEN FbHeight - 1 ELSE y
        index == Index(cx, cy)
    IN  IF FLt(depth, fb.depth[index])
        THEN [depth |-> [fb.depth EXCEPT ![index] = depth],
              color |-> ImageDrawPixel(fb.color, cx, cy, Quantized(color))]
        ELSE fb

\* point that writes unless the depth compares greater than or equal to the
\* stored one
PointFb_UnlessFarther(fb, x, y, color, depth) ==
    IF InBounds(x, y)
    THEN LET index == Index(x, y)
         IN  IF ~(FLt(fb.depth[index], depth) \/ (depth # NaN /\ depth = fb.depth[index]))
             THEN [depth |-> [fb.depth EXCEPT ![index] = depth],
                   color |-> ImageDrawPixel(fb.color, x, y, Quantized(color))]
             ELSE fb
    ELSE fb

\* Framebuffer::point as a function of the two surfaces
PointFb(fb, x, y, color, depth) ==
    IF InBounds(x, y)
    THEN LET index == Index(x, y)
         IN  IF FLt(depth, fb.depth[index])
             THEN [depth |-> [fb.depth EXCEPT ![index] = depth],
                   color |-> ImageDrawPixel(fb.color, x, y, Quantized(color))]
             ELSE fb
    ELSE fb

\* Framebuffer::get_pixel_color: Some(c) is <<c>>, None is << >>
get_pixel_color(x, y) ==
    IF InBounds(x, y) THEN <<ImageGetColor(color_buffer, x, y)>> ELSE << >>

\* Framebuffer::draw_line, the pixels its loop submits, in order (Bresenham).
\* `fuel` bounds the unfolding; a line between points of the model needs far less.
RECURSIVE LineLoop(_, _, _, _, _, _, _, _, _, _)
LineLoop(x0, y0, x1, y1, dx, dy, sx, sy, err, fuel) ==
    IF (x0 = x1 /\ y0 = y1) \/ fuel = 0
    THEN << <<x0, y0>> >>
    ELSE LET e2 == 2 * err
             stepx == e2 > 0 - dy
             err1 == IF stepx THEN err - dy ELSE err
             nx == IF stepx THEN x0 + sx ELSE x0
             stepy == e2 < dx
             err2 == IF stepy THEN err1 + dx ELSE err1
             ny == IF stepy THEN y0 + sy ELSE y0
         IN  << <<x0, y0>> >> \o
             LineLoop(nx, ny, x1, y1, dx, dy, sx, sy, err2, fuel - 1)

Abs(n) == IF n < 0 THEN 0 - n ELSE n

\* more iterations than any line between two points of the model takes
LineFuel == 4 * (FbWidth + FbHeight + 2)

LinePlots(p0, p1) ==
    LET x0 == AsI32(p0[1])
        y0 == AsI32(p0[2])
        x1 == AsI32(p1[1])
        y1 == AsI32(p1[2])
        dx == Abs(x1 - x0)
        dy == Abs(y1 - y0)
        sx == IF x0 < x1 THEN 1 ELSE 0 - 1
        sy == IF y0 < y1 THEN 1 ELSE 0 - 1
    IN  LineLoop(x0, y0, x1, y1, dx, dy, sx, sy, dx - dy, LineFuel)

\* the point calls of draw_line applied in order
RECURSIVE PlotAll(_, _, _, _)
PlotAll(fb, plots, color, depth) ==
    IF plots = << >> THEN fb
    ELSE PlotAll(PointFb(fb, Head(plots)[1], Head(plots)[2], color, depth),
                 Tail(plots), color, depth)

\* draw_line that tests its pixels with the depth of the far end
DrawLineFb_EndDepth(fb, p0, p1, color) == PlotAll(fb, LinePlots(p0, p1), color, p1[3])

DrawLineFb(fb, p0, p1, color) == PlotAll(fb, LinePlots(p0, p1), color, p0[3])

----------------------------------------------------------------------------
(* Vertex stage: positions, matrix entries and w are in twentieths (One) *)

One == 20

\* a matrix is four rows of four entries
Identity ==
    << <<One, 0, 0, 0>>, <<0, One, 0, 0>>, <<0, 0, One, 0>>, <<0, 0, 0, One>> >>
Translate(tx, ty, tz) ==
    << <<One, 0, 0, tx>>, <<0, One, 0, ty>>, <<0, 0, One, tz>>, <<0, 0, 0, One>> >>
\* a projection whose clip-space w is the view-space z
PerspW ==
    << <<One, 0, 0, 0>>, <<0, One, 0, 0>>, <<0, 0, One, 0>>, <<0, 0, One, 0>> >>

\* a product or quotient of two fixed-point values
FMul(a, b) == (a * b) \div One
FDiv(a, b) == (a * One) \div b

multiply_matrix_vector4(m, v) ==
    [i \in 1 .. 4 |->
        FMul(m[i][1], v[1]) + FMul(m[i][2], v[2]) + FMul(m[i][3], v[3])
            + FMul(m[i][4], v[4])]

\* atan2, cos and sin on the quarter turns, where they are exact; the angle is
\* counted in quarter turns.  Mesh vertices of the model lie on the x or z axis.
Atan2(a, b) ==
    CASE a = 0 /\ b >= 0 -> 0
      [] a > 0 /\ b = 0 -> 1
      [] a = 0 /\ b < 0 -> 2
      [] a < 0 /\ b = 0 -> 0 - 1
Cos(q) == CASE q % 4 = 0 -> One [] q % 4 = 2 -> 0 - One [] OTHER -> 0
Sin(q) == CASE q % 4 = 1 -> One [] q % 4 = 3 -> 0 - One [] OTHER -> 0

\* raylib Vector3::normalize on a vector along one axis; a zero vector stays
Sign(n) == IF n > 0 THEN One ELSE IF n < 0 THEN 0 - One ELSE 0
Normalize(v) == <<Sign(v[1]), Sign(v[2]), Sign(v[3])>>

transform_normal(normal, model_matrix) ==
    LET transformed ==
            multiply_matrix_vector4(model_matrix, <<normal[1], normal[2], normal[3], 0>>)
    IN  Normalize(<<transformed[1], transformed[2], transformed[3]>>)

inner_radius == 36
outer_radius == 56
moon_distance == 90
moon_inclination == 4

\* the orbit angle of the moon, in quarter turns: the model samples the orbit
\* at time 0, where moon_orbit_time = time * 0.3 is the angle 0
MoonAngle(tm) == CASE tm = 0 -> 0

\* the object-space position vertex_shader starts from, by render_type
Geometry(vertex, uniforms) ==
    LET p == vertex.position
    IN  CASE uniforms.render_type = 1 ->
                LET angle == Atan2(p[1], p[3])
                    ring_width == outer_radius - inner_radius
                    radius == inner_radius + FMul((p[2] + One) \div 2, ring_width)
                IN  <<FMul(radius, Cos(angle)), p[3] \div 20,
                      FMul(radius, Sin(angle)), One>>
          [] uniforms.render_type = 2 ->
                LET moon_orbit_time == MoonAngle(uniforms.time)
                    moon_x == FMul(moon_distance, Cos(moon_orbit_time))
                    moon_z == FMul(moon_distance, Sin(moon_orbit_time))
                    moon_y == FMul(Sin(moon_orbit_time * 2), moon_inclination)
                IN  <<moon_x + p[1] \div 4, moon_y + p[2] \div 4,
                      moon_z + p[3] \div 4, One>>
          [] OTHER -> <<p[1], p[2], p[3], One>>

\* a perspective divide that sends a vertex with w = 0 to the origin
PerspectiveDivide_ZeroToOrigin(clip_position) ==
    IF clip_position[4] # 0
    THEN <<FDiv(clip_position[1], clip_position[4]),
           FDiv(clip_position[2], clip_position[4]),
           FDiv(clip_position[3], clip_position[4])>>
    ELSE <<0, 0, 0>>

\* the perspective divide of vertex_shader
PerspectiveDivide(clip_position) ==
    IF clip_position[4] # 0
    THEN <<FDiv(clip_position[1], clip_position[4]),
           FDiv(clip_position[2], clip_position[4]),
           FDiv(clip_position[3], clip_position[4])>>
    ELSE <<clip_position[1], clip_position[2], clip_position[3]>>

vertex_shader(vertex, uniforms) ==
    LET position_vec4 == Geometry(vertex, uniforms)
        world_position == multiply_matrix_vector4(uniforms.model_matrix, position_vec4)
        view_position == multiply_matrix_vector4(uniforms.view_matrix, world_position)
        clip_position == multiply_matrix_vector4(uniforms.projection_matrix, view_position)
        ndc == PerspectiveDivide(clip_position)
        screen_position ==
            multiply_matrix_vector4(uniforms.viewport_matrix, <<ndc[1], ndc[2], ndc[3], One>>)
    IN  [position |-> vertex.position,
         normal |-> vertex.normal,
         transformed_position |->
            <<screen_position[1], screen_position[2], screen_position[3]>>,
         transformed_normal |-> transform_normal(vertex.normal, uniforms.model_matrix)]

----------------------------------------------------------------------------
(* Primitive assembler, culler and rasterizer: triangle() *)

Min2(a, b) == IF a < b THEN a ELSE b
Max2(a, b) == IF a > b THEN a ELSE b
Min3(a, b, c) == Min2(a, Min2(b, c))
Max3(a, b, c) == Max2(a, Max2(b, c))

\* twice the signed area of (a, b, c): the z of (b - a) x (c - a)
edge_function(a, b, c) ==
    (b[1] - a[1]) * (c[2] - a[2]) - (b[2] - a[2]) * (c[1] - a[1])

ZNear == 0 - One
ZFar == One

\* the fragments of one pixel row, left to right
RECURSIVE RowFragments(_, _, _, _, _, _, _)
RowFragments(a, b, c, area, x, xmax, y) ==
    IF x > xmax THEN << >>
    ELSE LET pt == <<x * One + One \div 2, y * One + One \div 2>>
             w0 == edge_function(b, c, pt)
             w1 == edge_function(c, a, pt)
             w2 == edge_function(a, b, pt)
             here == IF w0 >= 0 /\ w1 >= 0 /\ w2 >= 0
                     THEN << [position |-> <<x, y>>,
                              depth |-> (w0 * a[3] + w1 * b[3] + w2 * c[3]) \div area] >>
                     ELSE << >>
         IN  here \o RowFragments(a, b, c, area, x + 1, xmax, y)

RECURSIVE BoxFragments(_, _, _, _, _, _, _, _)
BoxFragments(a, b, c, area, xmin, xmax, y, ymax) ==
    IF y > ymax THEN << >>
    ELSE RowFragments(a, b, c, area, xmin, xmax, y)
            \o BoxFragments(a, b, c, area, xmin, xmax, y + 1, ymax)

\* a culler that lets every triangle through
Culled_Never(v1, v2, v3) == FALSE

\* back-face cull: the z-component of the cross product of the screen-space
\* edges from vertex 0 to vertex 1 and from vertex 0 to vertex 2 is negative
Culled(v1, v2, v3) ==
    edge_function(v1.transformed_position, v2.transformed_position,
                  v3.transformed_position) < 0

\* triangle(v1, v2, v3, light): the fragments of one triangle, row by row
triangle(v1, v2, v3) ==
    LET a == v1.transformed_position
        b == v2.transformed_position
        c == v3.transformed_position
        area == edge_function(a, b, c)
        allNear == a[3] < ZNear /\ b[3] < ZNear /\ c[3] < ZNear
        allFar == a[3] > ZFar /\ b[3] > ZFar /\ c[3] > ZFar
        xmin == Max2(Min3(a[1], b[1], c[1]) \div One, 0)
        xmax == Min2(Max3(a[1], b[1], c[1]) \div One, FbWidth - 1)
        ymin == Max2(Min3(a[2], b[2], c[2]) \div One, 0)
        ymax == Min2(Max3(a[2], b[2], c[2]) \div One, FbHeight - 1)
    IN  IF allNear \/ allFar \/ Culled(v1, v2, v3) \/ area = 0
        THEN << >>
        ELSE BoxFragments(a, b, c, area, xmin, xmax, ymin, ymax)

----------------------------------------------------------------------------
(* Shading library: colour channels are in hundredths (ColorOne) *)

\* f32::max and f32::min: when one side is NaN the other is returned
FMax(a, b) == IF a = NaN THEN b ELSE IF b = NaN THEN a ELSE IF a > b THEN a ELSE b
FMin(a, b) == IF a = NaN THEN b ELSE IF b = NaN THEN a ELSE IF a < b THEN a ELSE b

\* The noise-built material shaders are functions of the fragment's world
\* position and normal and of the time.  A fragment of the model carries, as
\* its `surface`, the value each of them computes for it, and what
\* calculate_lighting and the stripe test of ship_shader compute for it.
rocky_planet_shader(surface, tm) == surface.rocky
gas_giant_shader(surface, tm) == surface.gas
ocean_planet_shader(surface, tm) == surface.ocean
volcanic_planet_shader(surface, tm) == surface.volcanic
crystal_planet_shader(surface, tm) == surface.crystal

ship_shader(surface, tm) ==
    LET diffuse == surface.diffuse
        specular == surface.specular
        base_color == IF surface.stripe THEN <<80, 80, 80>> ELSE <<20, 20, 80>>
        ambient == 20
    IN  [c \in 1 .. 3 |->
            (base_color[c] * (ambient + diffuse)) \div ColorOne + specular]

\* fragment_shader with the tags counted from 1
fragment_shader_OneBased(fragment, uniforms) ==
    LET tm == uniforms.time
        planet_type == uniforms.planet_type
        color == CASE planet_type = 1 -> rocky_planet_shader(fragment.surface, tm)
                   [] planet_type = 2 -> gas_giant_shader(fragment.surface, tm)
                   [] planet_type = 3 -> ocean_planet_shader(fragment.surface, tm)
                   [] planet_type = 4 -> volcanic_planet_shader(fragment.surface, tm)
                   [] planet_type = 5 -> crystal_planet_shader(fragment.surface, tm)
                   [] planet_type = 10 -> ship_shader(fragment.surface, tm)
                   [] OTHER -> <<50, 50, 50>>
    IN  <<FMin(FMax(color[1], 0), ColorOne),
          FMin(FMax(color[2], 0), ColorOne),
          FMin(FMax(color[3], 0), ColorOne)>>

\* fragment_shader that clamps with f32::clamp, which keeps a NaN
fragment_shader_ClampKeepsNaN(fragment, uniforms) ==
    LET tm == uniforms.time
        planet_type == uniforms.planet_type
        color == CASE planet_type = 0 -> rocky_planet_shader(fragment.surface, tm)
                   [] planet_type = 1 -> gas_giant_shader(fragment.surface, tm)
                   [] planet_type = 2 -> ocean_planet_shader(fragment.surface, tm)
                   [] planet_type = 3 -> volcanic_planet_shader(fragment.surface, tm)
                   [] planet_type = 4 -> crystal_planet_shader(fragment.surface, tm)
                   [] planet_type = 10 -> ship_shader(fragment.surface, tm)
                   [] OTHER -> <<50, 50, 50>>
    IN  <<FClamp(color[1], 0, ColorOne),
          FClamp(color[2], 0, ColorOne),
          FClamp(color[3], 0, ColorOne)>>

\* fragment_shader whose ship arm is switched by how many Framebuffer calls
\* the process has made
fragment_shader_ReadsCalls(fragment, uniforms) ==
    LET tm == uniforms.time
        planet_type == uniforms.planet_type
        color == CASE planet_type = 0 -> rocky_planet_shader(fragment.surface, tm)
                   [] planet_type = 1 -> gas_giant_shader(fragment.surface, tm)
                   [] planet_type = 2 -> ocean_planet_shader(fragment.surface, tm)
                   [] planet_type = 3 -> volcanic_planet_shader(fragment.surface, tm)
                   [] planet_type = 4 -> crystal_planet_shader(fragment.surface, tm)
                   [] planet_type = 10 /\ calls % 2 = 0 -> ship_shader(fragment.surface, tm)
                   [] OTHER -> <<50, 50, 50>>
    IN  <<FMin(FMax(color[1], 0), ColorOne),
          FMin(FMax(color[2], 0), ColorOne),
          FMin(FMax(color[3], 0), ColorOne)>>

fragment_shader(fragment, uniforms) ==
    LET tm == uniforms.time
        planet_type == uniforms.planet_type
        color == CASE planet_type = 0 -> rocky_planet_shader(fragment.surface, tm)
                   [] planet_type = 1 -> gas_giant_shader(fragment.surface, tm)
                   [] planet_type = 2 -> ocean_planet_shader(fragment.surface, tm)
                   [] planet_type = 3 -> volcanic_planet_shader(fragment.surface, tm)
                   [] planet_type = 4 -> crystal_planet_shader(fragment.surface, tm)
                   [] planet_type = 10 -> ship_shader(fragment.surface, tm)
                   [] OTHER -> <<50, 50, 50>>
    IN  <<FMin(FMax(color[1], 0), ColorOne),
          FMin(FMax(color[2], 0), ColorOne),
          FMin(FMax(color[3], 0), ColorOne)>>

----------------------------------------------------------------------------
(* Arguments the callers of the model pass *)

MaxCalls == 3

\* the corner pixels of the buffer, and one position beyond each of its four sides
Inside == {<<x, y>> : x \in {0, FbWidth - 1}, y \in {0, FbHeight - 1}}
Outside == {<<0 - 1, 0>>, <<FbWidth, FbHeight - 1>>, <<0, 0 - 1>>, <<FbWidth - 1, FbHeight>>}
Positions == Inside \cup Outside
ReadPositions == {<<0, 0>>, <<FbWidth - 1, FbHeight - 1>>, <<0 - 1, 0>>, <<0, FbHeight>>}
Gray == <<50, 50, 50>>
Hot == <<150, 0 - 20, NaN>>
\* the <<color, depth>> arguments of point
PointArgs == {<<Gray, 0>>, <<Gray, 1>>, <<Hot, 0>>, <<Hot, 1>>,
              <<Gray, PosInf>>, <<Hot, NaN>>}
NoColor == <<0, 0, 0>>
RED == Color(230, 41, 55, 255)
LineEnds == {<<0, 0>>, <<FbWidth - 1, FbHeight - 1>>, <<0 - 1, 1>>}
\* the <<p0, p1>> arguments of draw_line: the two ends differ in depth
Lines == {<< <<a[1], a[2], z>>, <<b[1], b[2], 1 - z>> >> :
             a \in LineEnds, b \in LineEnds, z \in {0, 1}}

Op(name, x, y, color, depth) ==
    [op |-> name, x |-> x, y |-> y, color |-> color, depth |-> depth]

Fb == [color |-> color_buffer, depth |-> depth_buffer]

----------------------------------------------------------------------------
(* The Framebuffer under an arbitrary caller *)

InitFb ==
    /\ color_buffer = NewColorBuffer
    /\ depth_buffer = NewDepthBuffer
    /\ background_color = BLACK
    /\ current_color = WHITE

InitCalls ==
    /\ screen = << >>
    /\ lastOp = Op("new", 0, 0, NoColor, 0)
    /\ ret = << >>
    /\ calls = 0

NoUniforms ==
    [model_matrix |-> Identity, view_matrix |-> Identity,
     projection_matrix |-> Identity, viewport_matrix |-> Identity,
     time |-> 0, dt |-> 0, planet_type |-> 0, render_type |-> 0]

\* no draw entry point is running
InitDraw ==
    /\ kind = "none"
    /\ phase = "idle"
    /\ draw_uniforms = NoUniforms
    /\ vertex_array = << >>
    /\ transformed_vertices = << >>
    /\ triangles = << >>
    /\ fragments = << >>
    /\ loop_i = 0

NoLog == [frames |-> 0, clears |-> 0, draws |-> 0, presents |-> 0]

\* main is not running: the caller is a harness
NoMain ==
    /\ pc = "harness"
    /\ sphere_vertex_array = << >>
    /\ nave_vertex_array = << >>
    /\ time = 0
    /\ dt = 0
    /\ view_matrix = Identity
    /\ camera_mode = 0
    /\ warp_target = << >>
    /\ warp_progress = 0
    /\ show_orbits = TRUE
    /\ planet_i = 0
    /\ log = NoLog

NoSurface ==
    [rocky |-> NoColor, gas |-> NoColor, ocean |-> NoColor, volcanic |-> NoColor,
     crystal |-> NoColor, ring |-> NoColor, moon |-> NoColor,
     diffuse |-> 0, specular |-> 0, stripe |-> FALSE]

NoShader ==
    [planet_type |-> 0, time |-> 0, surface |-> NoSurface, out |-> NoColor,
     done |-> FALSE]

Init ==
    /\ InitFb
    /\ InitCalls
    /\ InitDraw
    /\ NoMain
    /\ shader = NoShader

\* raylib ImageClearBackground: every pixel becomes the colour
ImageClearBackground(img, c) == [i \in DOMAIN img |-> c]

\* clear that forgets the depth surface
Clear_ColorOnly ==
    /\ calls < MaxCalls
    /\ UNCHANGED <<drawVars, mainVars, shader>>
    /\ color_buffer' = ImageClearBackground(color_buffer, background_color)
    /\ lastOp' = Op("clear", 0, 0, NoColor, 0)
    /\ ret' = << >>
    /\ calls' = calls + 1
    /\ UNCHANGED <<depth_buffer, background_color, current_color, screen>>

Clear ==
    /\ calls < MaxCalls
    /\ UNCHANGED <<drawVars, mainVars, shader>>
    /\ color_buffer' = ImageClearBackground(color_buffer, background_color)
    /\ depth_buffer' = [i \in DOMAIN depth_buffer |-> PosInf]
    /\ lastOp' = Op("clear", 0, 0, NoColor, 0)
    /\ ret' = << >>
    /\ calls' = calls + 1
    /\ UNCHANGED <<background_color, current_color, screen>>

SetPixel(x, y) ==
    /\ calls < MaxCalls
    /\ UNCHANGED <<drawVars, mainVars, shader>>
    /\ color_buffer' = IF x >= 0 /\ x < FbWidth /\ y >= 0 /\ y < FbHeight
                       THEN ImageDrawPixel(color_buffer, x, y, current_color)
                       ELSE color_buffer
    /\ lastOp' = Op("set_pixel", x, y, NoColor, 0)
    /\ ret' = << >>
    /\ calls' = calls + 1
    /\ UNCHANGED <<depth_buffer, background_color, current_color, screen>>

Point(x, y, color, depth) ==
    /\ calls < MaxCalls
    /\ UNCHANGED <<drawVars, mainVars, shader>>
    /\ LET fb == PointFb(Fb, x, y, color, depth)
       IN  /\ color_buffer' = fb.color
           /\ depth_buffer' = fb.depth
    /\ lastOp' = Op("point", x, y, color, depth)
    /\ ret' = << >>
    /\ calls' = calls + 1
    /\ UNCHANGED <<background_color, current_color, screen>>

GetPixelColor(x, y) ==
    /\ calls < MaxCalls
    /\ UNCHANGED <<drawVars, mainVars, shader>>
    /\ ret' = get_pixel_color(x, y)
    /\ lastOp' = Op("get_pixel_color", x, y, NoColor, 0)
    /\ calls' = calls + 1
    /\ UNCHANGED <<fbVars, screen>>

SetBackgroundColor(c) ==
    /\ calls < MaxCalls
    /\ UNCHANGED <<drawVars, mainVars, shader>>
    /\ background_color' = c
    /\ lastOp' = Op("set_background_color", 0, 0, NoColor, 0)
    /\ ret' = << >>
    /\ calls' = calls + 1
    /\ UNCHANGED <<color_buffer, depth_buffer, current_color, screen>>

SetCurrentColor(c) ==
    /\ calls < MaxCalls
    /\ UNCHANGED <<drawVars, mainVars, shader>>
    /\ current_color' = c
    /\ lastOp' = Op("set_current_color", 0, 0, NoColor, 0)
    /\ ret' = << >>
    /\ calls' = calls + 1
    /\ UNCHANGED <<color_buffer, depth_buffer, background_color, screen>>

\* swap_buffers: the texture load may fail, and then nothing is drawn
SwapBuffers ==
    /\ calls < MaxCalls
    /\ UNCHANGED <<drawVars, mainVars, shader>>
    /\ \E loaded \in BOOLEAN :
          screen' = IF loaded THEN color_buffer ELSE screen
    /\ lastOp' = Op("swap_buffers", 0, 0, NoColor, 0)
    /\ ret' = << >>
    /\ calls' = calls + 1
    /\ UNCHANGED fbVars

DrawLine(p0, p1, color) ==
    /\ calls < MaxCalls
    /\ UNCHANGED <<drawVars, mainVars, shader>>
    /\ LET fb == DrawLineFb(Fb, p0, p1, color)
       IN  /\ color_buffer' = fb.color
           /\ depth_buffer' = fb.depth
    /\ lastOp' = Op("draw_line", AsI32(p0[1]), AsI32(p0[2]), color, p0[3])
    /\ ret' = << >>
    /\ calls' = calls + 1
    /\ UNCHANGED <<background_color, current_color, screen>>

Next ==
    \/ Clear
    \/ \E p \in Positions : SetPixel(p[1], p[2])
    \/ \E p \in Positions, a \in PointArgs : Point(p[1], p[2], a[1], a[2])
    \/ \E p \in ReadPositions : GetPixelColor(p[1], p[2])
    \/ SetBackgroundColor(SpaceBlue)
    \/ SetCurrentColor(RED)
    \/ SwapBuffers
    \/ \E l \in Lines : DrawLine(l[1], l[2], Gray)

Spec == Init /\ [][Next]_vars

----------------------------------------------------------------------------
(* The draw entry points: render_body, render_rings, render_moon *)

Vertex(x, y, z) == [position |-> <<x, y, z>>, normal |-> <<0, 0, One>>]

\* the vertex list the meshes of the model are cut from: a triangle that faces
\* the viewer as it is, one that does once it is bent into the ring, and a
\* seventh vertex
MeshVertices ==
    << Vertex(0, 0, 0), Vertex(40, 0, 0), Vertex(0, 40, 0),
       Vertex(0, 0 - 20, 0), Vertex(0, 20, 0), Vertex(0, 0 - 20, 800),
       Vertex(40, 40, 0) >>
Meshes == {SubSeq(MeshVertices, 1, n) : n \in 0 .. Len(MeshVertices)}

ModelMatrices ==
    {Identity, Translate(0, 0, 10), Translate(0 - 20, 0, 0), Translate(0 - 80, 0, 0)}
ProjectionMatrices == {Identity, PerspW}
DrawTags == {0, 5, 10}
DrawUniforms ==
    {[model_matrix |-> mm, view_matrix |-> Identity, projection_matrix |-> pm,
      viewport_matrix |-> Identity, time |-> 0, dt |-> 0,
      planet_type |-> t, render_type |-> 0] :
        mm \in ModelMatrices, pm \in ProjectionMatrices, t \in DrawTags}

Surface(base, lit) ==
    [rocky |-> base, gas |-> <<90, 85, 70>>, ocean |-> <<5, 15, 40>>,
     volcanic |-> <<10, 5, 5>>, crystal |-> <<170, 60, 100>>,
     ring |-> <<60, 50, 40>>, moon |-> <<30, 30, 30>>,
     diffuse |-> lit, specular |-> lit, stripe |-> lit > 0]
\* what the noise functions and calculate_lighting give the shaders at a
\* fragment: a fixed function of where the fragment is and of the time
SurfaceAt(f, u) ==
    IF (f.position[1] + f.position[2] + u.time) % 2 = 0
    THEN Surface(<<30, 15, 10>>, 0)
    ELSE Surface(<<70, 60, 50>>, ColorOne)

MaxDraws == 1

Kinds == {"body", "rings", "moon"}

\* entry: the uniforms are cloned with the render_type of the entry point, and
\* transformed_vertices starts empty
Begin(k, u, va) ==
    /\ phase = "idle"
    /\ kind' = k
    /\ draw_uniforms' = CASE k = "rings" -> [u EXCEPT !.render_type = 1]
                          [] k = "moon" -> [u EXCEPT !.render_type = 2]
                          [] OTHER -> u
    /\ vertex_array' = va
    /\ transformed_vertices' = << >>
    /\ triangles' = << >>
    /\ fragments' = << >>
    /\ loop_i' = 0
    /\ phase' = "vertex"

\* for vertex in vertex_array { transformed_vertices.push(vertex_shader(..)) }
VertexStep ==
    /\ phase = "vertex"
    /\ loop_i < Len(vertex_array)
    /\ transformed_vertices' =
          Append(transformed_vertices, vertex_shader(vertex_array[loop_i + 1], draw_uniforms))
    /\ loop_i' = loop_i + 1
    /\ UNCHANGED <<kind, phase, draw_uniforms, vertex_array, triangles, fragments>>
    /\ UNCHANGED <<fbVars, callVars, mainVars, shader>>

VertexDone ==
    /\ phase = "vertex"
    /\ loop_i = Len(vertex_array)
    /\ phase' = "assemble"
    /\ loop_i' = 0
    /\ UNCHANGED <<kind, draw_uniforms, vertex_array, transformed_vertices,
                   triangles, fragments>>
    /\ UNCHANGED <<fbVars, callVars, mainVars, shader>>

\* primitive assembly that slides over the vertices one at a time (a strip)
AssembleStep_Strip ==
    /\ phase = "assemble"
    /\ loop_i < Len(transformed_vertices)
    /\ triangles' =
          IF loop_i + 2 < Len(transformed_vertices)
          THEN Append(triangles, <<transformed_vertices[loop_i + 1],
                                   transformed_vertices[loop_i + 2],
                                   transformed_vertices[loop_i + 3]>>)
          ELSE triangles
    /\ loop_i' = loop_i + 1
    /\ UNCHANGED <<kind, phase, draw_uniforms, vertex_array, transformed_vertices,
                   fragments>>
    /\ UNCHANGED <<fbVars, callVars, mainVars, shader>>

\* for i in (0..len).step_by(3) { if i + 2 < len { triangles.push([..]) } }
AssembleStep ==
    /\ phase = "assemble"
    /\ loop_i < Len(transformed_vertices)
    /\ triangles' =
          IF loop_i + 2 < Len(transformed_vertices)
          THEN Append(triangles, <<transformed_vertices[loop_i + 1],
                                   transformed_vertices[loop_i + 2],
                                   transformed_vertices[loop_i + 3]>>)
          ELSE triangles
    /\ loop_i' = loop_i + 3
    /\ UNCHANGED <<kind, phase, draw_uniforms, vertex_array, transformed_vertices,
                   fragments>>
    /\ UNCHANGED <<fbVars, callVars, mainVars, shader>>

AssembleDone ==
    /\ phase = "assemble"
    /\ loop_i >= Len(transformed_vertices)
    /\ phase' = "raster"
    /\ loop_i' = 0
    /\ UNCHANGED <<kind, draw_uniforms, vertex_array, transformed_vertices,
                   triangles, fragments>>
    /\ UNCHANGED <<fbVars, callVars, mainVars, shader>>

\* the colour a draw entry point gives a fragment: render_body calls
\* fragment_shader, render_rings and render_moon shade in their own loops
Shade(k, fragment, u) ==
    CASE k = "rings" -> fragment.surface.ring
      [] k = "moon" -> fragment.surface.moon
      [] OTHER -> fragment_shader(fragment, u)

\* one framebuffer.point call of a draw entry point
WriteFragment(fragment) ==
    LET final_color == Shade(kind, fragment, draw_uniforms)
        x == AsI32(fragment.position[1])
        y == AsI32(fragment.position[2])
        fb == PointFb(Fb, x, y, final_color, fragment.depth)
    IN  /\ color_buffer' = fb.color
        /\ depth_buffer' = fb.depth
        /\ lastOp' = Op("point", x, y, final_color, fragment.depth)
        /\ ret' = << >>
        /\ calls' = calls + 1
        /\ UNCHANGED <<background_color, current_color, screen>>

WithSurface(f, surface) ==
    [position |-> f.position, depth |-> f.depth, surface |-> surface]

\* a rasterization loop that writes each triangle's fragments as it makes them
RasterStep_WritesAtOnce ==
    /\ phase = "raster"
    /\ loop_i < Len(triangles)
    /\ LET tri == triangles[loop_i + 1]
           made == triangle(tri[1], tri[2], tri[3])
       IN  /\ fragments' = IF made = << >> THEN fragments ELSE fragments \o Tail(made)
           /\ IF made = << >>
              THEN UNCHANGED <<fbVars, callVars>>
              ELSE WriteFragment(WithSurface(Head(made), SurfaceAt(Head(made), draw_uniforms)))
    /\ loop_i' = loop_i + 1
    /\ UNCHANGED <<kind, phase, draw_uniforms, vertex_array, transformed_vertices,
                   triangles>>
    /\ UNCHANGED <<mainVars, shader>>

\* for tri in &triangles { fragments.extend(triangle(..)) }
RasterStep ==
    /\ phase = "raster"
    /\ loop_i < Len(triangles)
    /\ LET tri == triangles[loop_i + 1]
       IN  fragments' = fragments \o triangle(tri[1], tri[2], tri[3])
    /\ loop_i' = loop_i + 1
    /\ UNCHANGED <<kind, phase, draw_uniforms, vertex_array, transformed_vertices,
                   triangles>>
    /\ UNCHANGED <<fbVars, callVars, mainVars, shader>>

RasterDone ==
    /\ phase = "raster"
    /\ loop_i = Len(triangles)
    /\ phase' = "write"
    /\ loop_i' = 0
    /\ UNCHANGED <<kind, draw_uniforms, vertex_array, transformed_vertices,
                   triangles, fragments>>
    /\ UNCHANGED <<fbVars, callVars, mainVars, shader>>

\* for fragment in fragments { shade; framebuffer.point(..) }
WriteStep ==
    /\ phase = "write"
    /\ loop_i < Len(fragments)
    /\ WriteFragment(WithSurface(fragments[loop_i + 1],
                                 SurfaceAt(fragments[loop_i + 1], draw_uniforms)))
    /\ loop_i' = loop_i + 1
    /\ UNCHANGED <<kind, phase, draw_uniforms, vertex_array, transformed_vertices,
                   triangles, fragments>>
    /\ UNCHANGED <<mainVars, shader>>

\* the entry point returns and its locals are dropped
WriteDone ==
    /\ phase = "write"
    /\ loop_i = Len(fragments)
    /\ kind' = "none"
    /\ phase' = "idle"
    /\ draw_uniforms' = NoUniforms
    /\ vertex_array' = << >>
    /\ transformed_vertices' = << >>
    /\ triangles' = << >>
    /\ fragments' = << >>
    /\ loop_i' = 0
    /\ UNCHANGED <<fbVars, callVars, mainVars, shader>>

DrawSteps ==
    \/ VertexStep
    \/ VertexDone
    \/ AssembleStep
    \/ AssembleDone
    \/ RasterStep
    \/ RasterDone
    \/ WriteStep
    \/ WriteDone

\* a caller that draws meshes into a new framebuffer
DrawCall(k, u, va) ==
    /\ pc = "harness"
    /\ log.draws < MaxDraws
    /\ Begin(k, u, va)
    /\ log' = [log EXCEPT !.draws = log.draws + 1]
    /\ UNCHANGED <<pc, sphere_vertex_array, nave_vertex_array, time, dt, view_matrix,
                   camera_mode, warp_target, warp_progress, show_orbits, planet_i>>
    /\ UNCHANGED <<fbVars, callVars, shader>>

NextDraw ==
    \/ \E k \in Kinds, u \in DrawUniforms, va \in Meshes : DrawCall(k, u, va)
    \/ DrawSteps

SpecDraw == Init /\ [][NextDraw]_vars

----------------------------------------------------------------------------
(* main: startup and the frame loop.  Times and the warp progress are
   in quarters: 4 is 1.0. *)

MaxFrames == 2

Whole == 4

\* planet_type of the sun and of the five planets, in the order of `planets`
SunType == 5
planets == <<0, 1, 2, 3, 4>>
ShipType == 10

\* what Obj::load(..).get_vertex_array() can give
LoadedMeshes == {SubSeq(MeshVertices, 1, 3), SubSeq(MeshVertices, 1, 5)}
\* get_frame_time()
FrameTimes == {1, 2}
Keys == {"ZERO", "ONE", "TWO", "THREE", "FOUR", "FIVE", "SPACE", "O", "R"}
\* the keys found pressed in one frame
KeySets == {ks \in SUBSET Keys : Cardinality(ks) <= 2}
DigitKey(n) == CASE n = 0 -> "ONE" [] n = 1 -> "TWO" [] n = 2 -> "THREE"
                 [] n = 3 -> "FOUR" [] OTHER -> "FIVE"

\* create_model_matrix(position, scale, rotation) of a body of the model: the
\* sun lies behind the planets and the ship
BodyMatrix(planet_type) ==
    IF planet_type = SunType THEN Translate(0, 0, 10) ELSE Identity

BodyUniforms(planet_type) ==
    [model_matrix |-> BodyMatrix(planet_type), view_matrix |-> view_matrix,
     projection_matrix |-> Identity, viewport_matrix |-> Identity,
     time |-> time, dt |-> dt, planet_type |-> planet_type, render_type |-> 0]

InitMain ==
    /\ InitFb
    /\ InitCalls
    /\ InitDraw
    /\ pc = "load_sphere"
    /\ sphere_vertex_array = << >>
    /\ nave_vertex_array = << >>
    /\ time = 0
    /\ dt = 0
    /\ view_matrix = Identity
    /\ camera_mode = 0
    /\ warp_target = << >>
    /\ warp_progress = 0
    /\ show_orbits = TRUE
    /\ planet_i = 0
    /\ log = NoLog
    /\ shader = NoShader

\* Obj::load("models/sphere.obj").expect(..)
LoadSphere ==
    /\ pc = "load_sphere"
    /\ \/ /\ pc' = "panicked"
          /\ UNCHANGED sphere_vertex_array
       \/ \E mesh \in LoadedMeshes :
             /\ sphere_vertex_array' = mesh
             /\ pc' = "load_nave"
    /\ UNCHANGED <<nave_vertex_array, time, dt, view_matrix, camera_mode, warp_target,
                   warp_progress, show_orbits, planet_i, log>>
    /\ UNCHANGED <<fbVars, callVars, drawVars, shader>>

\* a ship load that goes on with no vertices when the file cannot be read
LoadNave_GoesOn ==
    /\ pc = "load_nave"
    /\ \/ /\ pc' = "setup"
          /\ nave_vertex_array' = << >>
       \/ \E mesh \in LoadedMeshes :
             /\ nave_vertex_array' = mesh
             /\ pc' = "setup"
    /\ UNCHANGED <<sphere_vertex_array, time, dt, view_matrix, camera_mode, warp_target,
                   warp_progress, show_orbits, planet_i, log>>
    /\ UNCHANGED <<fbVars, callVars, drawVars, shader>>

\* Obj::load("models/nave.obj").expect(..)
LoadNave ==
    /\ pc = "load_nave"
    /\ \/ /\ pc' = "panicked"
          /\ UNCHANGED nave_vertex_array
       \/ \E mesh \in LoadedMeshes :
             /\ nave_vertex_array' = mesh
             /\ pc' = "setup"
    /\ UNCHANGED <<sphere_vertex_array, time, dt, view_matrix, camera_mode, warp_target,
                   warp_progress, show_orbits, planet_i, log>>
    /\ UNCHANGED <<fbVars, callVars, drawVars, shader>>

\* framebuffer.set_background_color(..) and the locals of main
Setup ==
    /\ pc = "setup"
    /\ background_color' = SpaceBlue
    /\ lastOp' = Op("set_background_color", 0, 0, NoColor, 0)
    /\ ret' = << >>
    /\ calls' = calls + 1
    /\ time' = 0
    /\ warp_target' = << >>
    /\ warp_progress' = 0
    /\ show_orbits' = TRUE
    /\ camera_mode' = 0
    /\ pc' = "loop"
    /\ UNCHANGED <<color_buffer, depth_buffer, current_color, screen>>
    /\ UNCHANGED <<sphere_vertex_array, nave_vertex_array, dt, view_matrix, planet_i, log>>
    /\ UNCHANGED <<drawVars, shader>>

\* while !window.window_should_close()
LoopTest ==
    /\ pc = "loop"
    /\ \E close \in BOOLEAN :
          /\ log.frames >= MaxFrames => close
          /\ pc' = IF close THEN "exit" ELSE "update"
    /\ UNCHANGED <<sphere_vertex_array, nave_vertex_array, time, dt, view_matrix,
                   camera_mode, warp_target, warp_progress, show_orbits, planet_i, log>>
    /\ UNCHANGED <<fbVars, callVars, drawVars, shader>>

\* dt, time and the update of the celestial bodies
Update ==
    /\ pc = "update"
    /\ \E t \in FrameTimes :
          /\ dt' = t
          /\ time' = time + t
    /\ log' = [frames |-> log.frames + 1, clears |-> 0, draws |-> 0, presents |-> 0]
    /\ pc' = "input"
    /\ UNCHANGED <<sphere_vertex_array, nave_vertex_array, view_matrix, camera_mode,
                   warp_target, warp_progress, show_orbits, planet_i>>
    /\ UNCHANGED <<fbVars, callVars, drawVars, shader>>

\* the highest i of `for i in 0..5` whose key is pressed
LastDigit(keys) ==
    CHOOSE n \in 0 .. 4 :
        /\ DigitKey(n) \in keys
        /\ \A k \in 0 .. 4 : DigitKey(k) \in keys => k <= n

\* input handling in which SPACE steps past the last planet
HandleInput_NoWrap(keys) ==
    /\ pc = "input"
    /\ LET digit == \E n \in 0 .. 4 : DigitKey(n) \in keys
           mode1 == IF "ZERO" \in keys THEN 0 ELSE camera_mode
           target1 == IF "ZERO" \in keys THEN << >> ELSE warp_target
           target2 == IF digit THEN <<LastDigit(keys)>> ELSE target1
           progress2 == IF digit THEN 0 ELSE warp_progress
           target3 == IF "SPACE" \in keys
                      THEN IF target2 # << >>
                           THEN <<target2[1] + 1>>
                           ELSE <<0>>
                      ELSE target2
           progress3 == IF "SPACE" \in keys THEN 0 ELSE progress2
       IN  /\ show_orbits' = IF "O" \in keys THEN ~show_orbits ELSE show_orbits
           /\ camera_mode' = IF "R" \in keys THEN 0 ELSE mode1
           /\ warp_target' = IF "R" \in keys THEN << >> ELSE target3
           /\ warp_progress' = progress3
    /\ pc' = "warp"
    /\ UNCHANGED <<sphere_vertex_array, nave_vertex_array, time, dt, view_matrix,
                   planet_i, log>>
    /\ UNCHANGED <<fbVars, callVars, drawVars, shader>>

\* input handling
HandleInput(keys) ==
    /\ pc = "input"
    /\ LET digit == \E n \in 0 .. 4 : DigitKey(n) \in keys
           mode1 == IF "ZERO" \in keys THEN 0 ELSE camera_mode
           target1 == IF "ZERO" \in keys THEN << >> ELSE warp_target
           target2 == IF digit THEN <<LastDigit(keys)>> ELSE target1
           progress2 == IF digit THEN 0 ELSE warp_progress
           target3 == IF "SPACE" \in keys
                      THEN IF target2 # << >>
                           THEN <<(target2[1] + 1) % Len(planets)>>
                           ELSE <<0>>
                      ELSE target2
           progress3 == IF "SPACE" \in keys THEN 0 ELSE progress2
       IN  /\ show_orbits' = IF "O" \in keys THEN ~show_orbits ELSE show_orbits
           /\ camera_mode' = IF "R" \in keys THEN 0 ELSE mode1
           /\ warp_target' = IF "R" \in keys THEN << >> ELSE target3
           /\ warp_progress' = progress3
    /\ pc' = "warp"
    /\ UNCHANGED <<sphere_vertex_array, nave_vertex_array, time, dt, view_matrix,
                   planet_i, log>>
    /\ UNCHANGED <<fbVars, callVars, drawVars, shader>>

\* the warp animation and the camera control; planets[planet_idx] panics when
\* the index is outside the list
WarpAndCamera ==
    /\ pc = "warp"
    /\ LET progress == warp_progress + dt * 2
           arrived == warp_target # << >> /\ progress >= Whole
           mode == IF arrived THEN warp_target[1] + 1 ELSE camera_mode
       IN  /\ warp_progress' = IF warp_target = << >> THEN warp_progress
                               ELSE IF arrived THEN Whole ELSE progress
           /\ camera_mode' = mode
           /\ warp_target' = IF arrived THEN << >> ELSE warp_target
           /\ pc' = IF mode > 0 /\ mode <= 5 /\ (mode - 1) \notin 0 .. (Len(planets) - 1)
                    THEN "panicked" ELSE "clear"
    /\ UNCHANGED <<sphere_vertex_array, nave_vertex_array, time, dt, view_matrix,
                   show_orbits, planet_i, log>>
    /\ UNCHANGED <<fbVars, callVars, drawVars, shader>>

\* a frame that goes on to draw without clearing
MainClear_Skipped ==
    /\ pc = "clear"
    /\ pc' = "orbits"
    /\ UNCHANGED <<sphere_vertex_array, nave_vertex_array, time, dt, view_matrix,
                   camera_mode, warp_target, warp_progress, show_orbits, planet_i, log>>
    /\ UNCHANGED <<fbVars, callVars, drawVars, shader>>

\* framebuffer.clear()
MainClear ==
    /\ pc = "clear"
    /\ color_buffer' = ImageClearBackground(color_buffer, background_color)
    /\ depth_buffer' = [p \in DOMAIN depth_buffer |-> PosInf]
    /\ lastOp' = Op("clear", 0, 0, NoColor, 0)
    /\ ret' = << >>
    /\ calls' = calls + 1
    /\ log' = [log EXCEPT !.clears = log.clears + 1]
    /\ pc' = "orbits"
    /\ UNCHANGED <<background_color, current_color, screen>>
    /\ UNCHANGED <<sphere_vertex_array, nave_vertex_array, time, dt, view_matrix,
                   camera_mode, warp_target, warp_progress, show_orbits, planet_i>>
    /\ UNCHANGED <<drawVars, shader>>

\* the matrices of the frame, and render_orbit, which draws nothing
RenderOrbits ==
    /\ pc = "orbits"
    /\ view_matrix' = Identity
    /\ pc' = "sun"
    /\ UNCHANGED <<sphere_vertex_array, nave_vertex_array, time, dt, camera_mode,
                   warp_target, warp_progress, show_orbits, planet_i, log>>
    /\ UNCHANGED <<fbVars, callVars, drawVars, shader>>

\* render_body(&mut framebuffer, &sun_uniforms, &sphere_vertex_array, &light)
DrawSun ==
    /\ pc = "sun"
    /\ Begin("body", BodyUniforms(SunType), sphere_vertex_array)
    /\ log' = [log EXCEPT !.draws = log.draws + 1]
    /\ planet_i' = 0
    /\ pc' = "planets"
    /\ UNCHANGED <<sphere_vertex_array, nave_vertex_array, time, dt, view_matrix,
                   camera_mode, warp_target, warp_progress, show_orbits>>
    /\ UNCHANGED <<fbVars, callVars, shader>>

\* for planet in &planets { render_body(.., &planet_uniforms, ..) }
DrawPlanet ==
    /\ pc = "planets"
    /\ phase = "idle"
    /\ planet_i < Len(planets)
    /\ Begin("body", BodyUniforms(planets[planet_i + 1]), sphere_vertex_array)
    /\ log' = [log EXCEPT !.draws = log.draws + 1]
    /\ planet_i' = planet_i + 1
    /\ UNCHANGED <<pc, sphere_vertex_array, nave_vertex_array, time, dt, view_matrix,
                   camera_mode, warp_target, warp_progress, show_orbits>>
    /\ UNCHANGED <<fbVars, callVars, shader>>

\* render_body(&mut framebuffer, &nave_uniforms, &nave_vertex_array, &light)
DrawShip ==
    /\ pc = "planets"
    /\ phase = "idle"
    /\ planet_i = Len(planets)
    /\ Begin("body", BodyUniforms(ShipType), nave_vertex_array)
    /\ log' = [log EXCEPT !.draws = log.draws + 1]
    /\ pc' = "present"
    /\ UNCHANGED <<sphere_vertex_array, nave_vertex_array, time, dt, view_matrix,
                   camera_mode, warp_target, warp_progress, show_orbits, planet_i>>
    /\ UNCHANGED <<fbVars, callVars, shader>>

\* the info text, which reads planets[camera_mode - 1], and swap_buffers
Present ==
    /\ pc = "present"
    /\ phase = "idle"
    /\ IF camera_mode # 0 /\ (camera_mode - 1) \notin 0 .. (Len(planets) - 1)
       THEN /\ pc' = "panicked"
            /\ UNCHANGED <<callVars, log>>
       ELSE /\ \E loaded \in BOOLEAN :
                  screen' = IF loaded THEN color_buffer ELSE screen
            /\ lastOp' = Op("swap_buffers", 0, 0, NoColor, 0)
            /\ ret' = << >>
            /\ calls' = calls + 1
            /\ log' = [log EXCEPT !.presents = log.presents + 1]
            /\ pc' = "loop"
    /\ UNCHANGED <<sphere_vertex_array, nave_vertex_array, time, dt, view_matrix,
                   camera_mode, warp_target, warp_progress, show_orbits, planet_i>>
    /\ UNCHANGED <<fbVars, drawVars, shader>>

NextMain ==
    \/ LoadSphere
    \/ LoadNave
    \/ Setup
    \/ LoopTest
    \/ Update
    \/ \E keys \in KeySets : HandleInput(keys)
    \/ WarpAndCamera
    \/ MainClear
    \/ RenderOrbits
    \/ DrawSun
    \/ DrawPlanet
    \/ DrawShip
    \/ Present
    \/ DrawSteps

SpecMain == InitMain /\ [][NextMain]_vars

----------------------------------------------------------------------------
(* fragment_shader on its own: the inputs are drawn at the start *)

MinTag == 0 - 2
MaxTag == 11
ShaderTags == MinTag .. MaxTag
ShaderTimes == {0, 1}
\* results of the material shaders: inside [0,1], above and below it, not a
\* number, and infinite
RawColors ==
    << <<30, 15, 10>>, Hot, <<PosInf, NegInf, 50>>, <<0, ColorOne, 101>>,
       <<NaN, NaN, NaN>> >>
Rotated(k, n) == RawColors[((k + n) % Len(RawColors)) + 1]
ShaderSurfaces ==
    {[rocky |-> Rotated(k, 0), gas |-> Rotated(k, 1), ocean |-> Rotated(k, 2),
      volcanic |-> Rotated(k, 3), crystal |-> Rotated(k, 4),
      ring |-> NoColor, moon |-> NoColor,
      diffuse |-> lit, specular |-> lit, stripe |-> stripe] :
        k \in 0 .. (Len(RawColors) - 1), lit \in {0, ColorOne}, stripe \in BOOLEAN}

InitShader ==
    /\ InitFb
    /\ InitCalls
    /\ InitDraw
    /\ NoMain
    /\ \E t \in ShaderTags, tm \in ShaderTimes, surface \in ShaderSurfaces :
          shader = [planet_type |-> t, time |-> tm, surface |-> surface,
                    out |-> NoColor, done |-> FALSE]

\* let color = fragment_shader(&fragment, &uniforms)
CallFragmentShader ==
    /\ ~shader.done
    /\ LET fragment == [position |-> <<0, 0>>, depth |-> 0, surface |-> shader.surface]
           uniforms == [NoUniforms EXCEPT !.planet_type = shader.planet_type,
                                          !.time = shader.time]
       IN  shader' = [shader EXCEPT !.out = fragment_shader(fragment, uniforms),
                                    !.done = TRUE]
    /\ UNCHANGED <<fbVars, callVars, drawVars, mainVars>>

NextShader == CallFragmentShader

SpecShader == InitShader /\ [][NextShader]_vars

----------------------------------------------------------------------------
(* fragment_shader called again with the same arguments, other calls between *)

RepeatTags == {0, 5, 10}
RepeatSurfaces == {Surface(<<30, 15, 10>>, 0), Surface(Hot, ColorOne)}

\* the fragment and the Uniforms the calls under watch are made with
ShaderFragment == [position |-> <<0, 0>>, depth |-> 0, surface |-> shader.surface]
ShaderUniforms ==
    [NoUniforms EXCEPT !.planet_type = shader.planet_type, !.time = shader.time]

InitRepeat ==
    /\ InitFb
    /\ InitCalls
    /\ InitDraw
    /\ NoMain
    /\ \E t \in RepeatTags, surface \in RepeatSurfaces :
          shader = [planet_type |-> t, time |-> 0, surface |-> surface,
                    out |-> NoColor, done |-> FALSE]

\* a fragment_shader call with another material tag; its result is dropped
OtherShaderCall(t) ==
    /\ shader.done
    /\ t # shader.planet_type
    /\ lastOp' = Op("other_fragment_shader", t, 0,
                    fragment_shader(ShaderFragment, [ShaderUniforms EXCEPT !.planet_type = t]), 0)
    /\ ret' = << >>
    /\ UNCHANGED <<fbVars, screen, calls, drawVars, mainVars, shader>>

\* pub fn set_planet_type(_planet_type: i32) { }
SetPlanetType(t) ==
    /\ shader.done
    /\ lastOp' = Op("set_planet_type", t, 0, NoColor, 0)
    /\ ret' = << >>
    /\ UNCHANGED <<fbVars, screen, calls, drawVars, mainVars, shader>>

\* a frame-buffer write between the calls
WriteBetween ==
    /\ shader.done
    /\ \E a \in PointArgs : Point(0, 0, a[1], a[2])

\* fragment_shader(&fragment, &uniforms) once more, with the arguments of the
\* first call
CallAgain ==
    /\ shader.done
    /\ lastOp' = Op("fragment_shader", shader.planet_type, 0, NoColor, 0)
    /\ ret' = <<fragment_shader(ShaderFragment, ShaderUniforms)>>
    /\ UNCHANGED <<fbVars, screen, calls, drawVars, mainVars, shader>>

NextRepeat ==
    \/ CallFragmentShader
    \/ \E t \in RepeatTags : OtherShaderCall(t)
    \/ \E t \in RepeatTags : SetPlanetType(t)
    \/ WriteBetween
    \/ CallAgain

SpecRepeat == InitRepeat /\ [][NextRepeat]_vars

----------------------------------------------------------------------------
(* A mesh drawn into a cleared buffer, then drawn again over the same pixels *)

\* the view the two draws share
TwiceViews == {Identity, Translate(0, 0, 0 - 10)}
\* how far along z the second draw lies from the first
DepthShifts == {0 - 10, 0, 10}
TwiceTags == {0, ShipType}

TwiceUniforms(planet_type, shift) ==
    [model_matrix |-> Identity, view_matrix |-> view_matrix,
     projection_matrix |-> Identity, viewport_matrix |-> Translate(0, 0, shift),
     time |-> 0, dt |-> 0, planet_type |-> planet_type, render_type |-> 0]

InitTwice ==
    /\ InitFb
    /\ InitCalls
    /\ InitDraw
    /\ pc = "clear"
    /\ sphere_vertex_array = << >>
    /\ nave_vertex_array = << >>
    /\ time = 0
    /\ dt = 0
    /\ view_matrix = Identity
    /\ camera_mode = 0
    /\ warp_target = << >>
    /\ warp_progress = 0
    /\ show_orbits = TRUE
    /\ planet_i = 0
    /\ log = NoLog
    /\ shader = NoShader

\* render_body(.., &uniforms, &vertex_array, ..) on the cleared buffer
FirstDraw ==
    /\ pc = "orbits"
    /\ \E va \in Meshes, view \in TwiceViews :
          /\ sphere_vertex_array' = va
          /\ view_matrix' = view
          /\ Begin("body", [TwiceUniforms(0, 0) EXCEPT !.view_matrix = view], va)
    /\ log' = [log EXCEPT !.draws = log.draws + 1]
    /\ pc' = "second"
    /\ UNCHANGED <<nave_vertex_array, time, dt, camera_mode, warp_target,
                   warp_progress, show_orbits, planet_i>>
    /\ UNCHANGED <<fbVars, callVars, shader>>

\* render_body once more with the same vertices and view, shifted along z
SecondDraw ==
    /\ pc = "second"
    /\ \E t \in TwiceTags, shift \in DepthShifts :
          Begin("body", TwiceUniforms(t, shift), sphere_vertex_array)
    /\ log' = [log EXCEPT !.draws = log.draws + 1]
    /\ pc' = "end"
    /\ UNCHANGED <<sphere_vertex_array, nave_vertex_array, time, dt, view_matrix,
                   camera_mode, warp_target, warp_progress, show_orbits, planet_i>>
    /\ UNCHANGED <<fbVars, callVars, shader>>

NextTwice ==
    \/ MainClear
    \/ FirstDraw
    \/ SecondDraw
    \/ DrawSteps

SpecTwice == InitTwice /\ [][NextTwice]_vars

----------------------------------------------------------------------------
(* lerp_color.  Its f32 arithmetic rounds after every operation, so here a
   finite f32 is a binary floating-point number of reduced precision: an
   integer count of the smallest step (1/64) with at most Precision
   significant bits.  Every sum, difference and product is rounded to the
   nearest such number, ties to the even one, as f32 does. *)

\* significant bits of a number (24 in f32)
Precision == 3
\* 1.0, counted in steps of 1/64
Unit == 64

RECURSIVE Pow2(_)
Pow2(n) == IF n = 0 THEN 1 ELSE 2 * Pow2(n - 1)

\* the spacing of the representable numbers around magnitude m, where m and
\* the spacing are counted in steps of which `steps` make the smallest step
RECURSIVE Spacing(_, _, _)
Spacing(m, steps, q) ==
    IF m < Pow2(Precision) * q * steps THEN q * steps ELSE Spacing(m, steps, 2 * q)

\* the representable number nearest to x / steps, ties to even
RoundF(x, steps) ==
    LET m == Abs(x)
        q == Spacing(m, steps, 1)
        low == m - (m % q)
        rest == m % q
        up == \/ 2 * rest > q
              \/ 2 * rest = q /\ (low \div q) % 2 = 1
        r == (IF up THEN low + q ELSE low) \div steps
    IN  IF x < 0 THEN 0 - r ELSE r

FAdd(a, b) == RoundF(a + b, 1)
FSub(a, b) == RoundF(a - b, 1)
FMulF(a, b) == RoundF(a * b, Unit)

\* let t_clamped = t.max(0.0).min(1.0); a + (b - a) * t_clamped, per channel
lerp_color(a, b, t) ==
    LET t_clamped == FMin(FMax(t, 0), Unit)
    IN  [c \in 1 .. 3 |-> FAdd(a[c], FMulF(FSub(b[c], a[c]), t_clamped))]

\* channel values and colours the calls are made with: all representable
LerpValues == {0, 3, 5, 16, 56, Unit}
LerpColors == {<<x, y, Unit>> : x \in LerpValues, y \in LerpValues}
\* the t arguments: below 0, 0, inside (0,1), 1, above 1, infinite, NaN
LerpTs == {NegInf, 0 - 8, 0, 32, 56, Unit, 96, PosInf, NaN}

InitLerp ==
    /\ InitFb
    /\ InitCalls
    /\ InitDraw
    /\ NoMain
    /\ \E a \in LerpColors, b \in LerpColors, t \in LerpTs :
          shader = [a |-> a, b |-> b, t |-> t, out |-> NoColor, done |-> FALSE]

\* lerp_color(&a, &b, t)
CallLerpColor ==
    /\ ~shader.done
    /\ shader' = [shader EXCEPT !.out = lerp_color(shader.a, shader.b, shader.t),
                                !.done = TRUE]
    /\ UNCHANGED <<fbVars, callVars, drawVars, mainVars>>

NextLerp == CallLerpColor

SpecLerp == InitLerp /\ [][NextLerp]_vars

----------------------------------------------------------------------------
(* hash and noise3d.  Coordinates are counted in halves, the sine in
   hundredths, hash values in ten-thousandths and noise values in 64ths of
   a ten-thousandth, so that the products below are exact. *)

\* 1.0 as a hash value, and as a noise value
HashOne == 10000
NoiseOne == 64 * HashOne
\* 43758.5453, in hundredths
HashScale == 4375855

\* (n * 12.9898).sin() in hundredths, for the lattice numbers of the model
HashSine ==
    0 - 59 :> 15 @@ 0 - 58 :> 54 @@ 0 - 57 :> 84 @@ 0 - 56 :> 99 @@ 0 - 50 :> 0 - 73 @@
    0 - 49 :> 0 - 95 @@ 0 - 48 :> 0 - 100 @@ 0 - 2 :> 0 - 75 @@ 0 - 1 :> 0 - 41 @@ 0 :> 0 @@
    1 :> 41 @@ 7 :> 18 @@ 8 :> 0 - 24 @@ 9 :> 0 - 62 @@ 54 :> 0 - 77 @@
    55 :> 0 - 96 @@ 56 :> 0 - 99 @@ 57 :> 0 - 84 @@ 58 :> 0 - 54 @@ 63 :> 100 @@
    64 :> 92 @@ 65 :> 68 @@ 66 :> 32 @@ 111 :> 12 @@ 112 :> 0 - 30 @@
    113 :> 0 - 66 @@ 114 :> 0 - 91 @@ 120 :> 52 @@ 121 :> 82 @@ 122 :> 98 @@
    168 :> 90 @@ 169 :> 64 @@ 170 :> 27 @@ 171 :> 0 - 15 @@ 177 :> 0 - 44 @@
    178 :> 0 - 3 @@ 179 :> 39
LatticeNumbers == DOMAIN HashSine

\* f32::trunc and f32::fract on a value counted in `one`s: fract is
\* self - self.trunc(), which keeps the sign of self
Trunc(x, one) == IF x < 0 THEN 0 - (((0 - x) \div one) * one) ELSE (x \div one) * one
Fract(x, one) == x - Trunc(x, one)
\* f32::floor, as a whole number
Floor(x, one) == x \div one

\* ((n * 12.9898).sin() * 43758.5453).fract()
hash(n) == Fract(HashSine[n] * HashScale, HashOne)

\* noise3d(p), p in halves
noise3d(p) ==
    LET ix == Floor(p[1], 2)
        iy == Floor(p[2], 2)
        iz == Floor(p[3], 2)
        fx == Fract(p[1], 2)
        fy == Fract(p[2], 2)
        fz == Fract(p[3], 2)
        \* f * f * (3.0 - 2.0 * f), in quarters
        ux == fx * fx * (3 - fx)
        uy == fy * fy * (3 - fy)
        uz == fz * fz * (3 - fz)
        n000 == hash(ix + iy * 57 + iz * 113)
        n100 == hash(ix + 1 + iy * 57 + iz * 113)
        n010 == hash(ix + (iy + 1) * 57 + iz * 113)
        n110 == hash(ix + 1 + (iy + 1) * 57 + iz * 113)
        n001 == hash(ix + iy * 57 + (iz + 1) * 113)
        n101 == hash(ix + 1 + iy * 57 + (iz + 1) * 113)
        n011 == hash(ix + (iy + 1) * 57 + (iz + 1) * 113)
        n111 == hash(ix + 1 + (iy + 1) * 57 + (iz + 1) * 113)
        nx00 == n000 * (4 - ux) + n100 * ux
        nx10 == n010 * (4 - ux) + n110 * ux
        nx01 == n001 * (4 - ux) + n101 * ux
        nx11 == n011 * (4 - ux) + n111 * ux
        nxy0 == nx00 * (4 - uy) + nx10 * uy
        nxy1 == nx01 * (4 - uy) + nx11 * uy
    IN  nxy0 * (4 - uz) + nxy1 * uz

\* the points noise3d is called at, in halves
NoisePoints ==
    {<<x, y, z>> : x \in {0 - 3, 0 - 2, 0, 1, 15, 16}, y \in {0 - 1, 0, 1}, z \in {0, 1}}

InitNoise ==
    /\ InitFb
    /\ InitCalls
    /\ InitDraw
    /\ NoMain
    /\ \/ \E n \in LatticeNumbers :
             shader = [fn |-> "hash", n |-> n, p |-> <<0, 0, 0>>, out |-> 0, done |-> FALSE]
       \/ \E p \in NoisePoints :
             shader = [fn |-> "noise3d", n |-> 0, p |-> p, out |-> 0, done |-> FALSE]

CallHash ==
    /\ ~shader.done
    /\ shader.fn = "hash"
    /\ shader' = [shader EXCEPT !.out = hash(shader.n), !.done = TRUE]
    /\ UNCHANGED <<fbVars, callVars, drawVars, mainVars>>

CallNoise3d ==
    /\ ~shader.done
    /\ shader.fn = "noise3d"
    /\ shader' = [shader EXCEPT !.out = noise3d(shader.p), !.done = TRUE]
    /\ UNCHANGED <<fbVars, callVars, drawVars, mainVars>>

NextNoise ==
    \/ CallHash
    \/ CallNoise3d

SpecNoise == InitNoise /\ [][NextNoise]_vars

----------------------------------------------------------------------------
(* Draws of triangles in both winding orders *)

\* a triangle that faces the viewer, one of no area, and a second facing one
FrontTriangle == << Vertex(0, 0, 0), Vertex(40, 0, 0), Vertex(0, 40, 0) >>
FlatTriangle == << Vertex(0, 0, 0), Vertex(20, 20, 0), Vertex(40, 40, 0) >>
SmallTriangle == << Vertex(0, 0, 10), Vertex(20, 0, 10), Vertex(0, 20, 10) >>
Reversed(t) == << t[3], t[2], t[1] >>
WindingTriangles ==
    {FrontTriangle, Reversed(FrontTriangle), FlatTriangle, Reversed(FlatTriangle),
     SmallTriangle, Reversed(SmallTriangle)}
\* meshes of one and of two triangles
WindingMeshes == WindingTriangles \cup {s \o t : s \in WindingTriangles, t \in WindingTriangles}
WindingUniforms == {u \in DrawUniforms : u.model_matrix \in {Identity, Translate(0, 0, 10)}}

NextCull ==
    \/ \E u \in WindingUniforms, va \in WindingMeshes : DrawCall("body", u, va)
    \/ DrawSteps

SpecCull == Init /\ [][NextCull]_vars

----------------------------------------------------------------------------
(* Two point calls to one pixel, applied in both orders: the Framebuffer
   of the model takes them in one order, a second Framebuffer, kept in
   `shader`, takes them in the other. *)

InitOrder ==
    /\ InitFb
    /\ InitCalls
    /\ InitDraw
    /\ NoMain
    /\ \E a \in PointArgs, b \in PointArgs, pos \in Inside :
          shader = [other |-> [color |-> NewColorBuffer, depth |-> NewDepthBuffer],
                    prior |-> [color |-> NewColorBuffer, depth |-> NewDepthBuffer],
                    x |-> pos[1], y |-> pos[2], a |-> a, b |-> b, step |-> 0]

\* one and the same earlier point call on both Framebuffers
PriorWrite ==
    /\ shader.step = 0
    /\ calls = 0
    /\ \E c \in PointArgs :
          LET fb == PointFb(Fb, shader.x, shader.y, c[1], c[2])
          IN  /\ color_buffer' = fb.color
              /\ depth_buffer' = fb.depth
              /\ shader' = [shader EXCEPT
                              !.other = PointFb(shader.other, shader.x, shader.y, c[1], c[2])]
              /\ lastOp' = Op("point", shader.x, shader.y, c[1], c[2])
    /\ ret' = << >>
    /\ calls' = calls + 1
    /\ UNCHANGED <<background_color, current_color, screen, drawVars, mainVars>>

\* point(x, y, a) on the one, point(x, y, b) on the other
FirstCalls ==
    /\ shader.step = 0
    /\ LET fb == PointFb(Fb, shader.x, shader.y, shader.a[1], shader.a[2])
       IN  /\ color_buffer' = fb.color
           /\ depth_buffer' = fb.depth
    /\ shader' = [shader EXCEPT
                    !.prior = Fb,
                    !.other = PointFb(shader.other, shader.x, shader.y,
                                      shader.b[1], shader.b[2]),
                    !.step = 1]
    /\ lastOp' = Op("point", shader.x, shader.y, shader.a[1], shader.a[2])
    /\ ret' = << >>
    /\ calls' = calls + 1
    /\ UNCHANGED <<background_color, current_color, screen, drawVars, mainVars>>

\* point(x, y, b) on the one, point(x, y, a) on the other
SecondCalls ==
    /\ shader.step = 1
    /\ LET fb == PointFb(Fb, shader.x, shader.y, shader.b[1], shader.b[2])
       IN  /\ color_buffer' = fb.color
           /\ depth_buffer' = fb.depth
    /\ shader' = [shader EXCEPT
                    !.other = PointFb(shader.other, shader.x, shader.y,
                                      shader.a[1], shader.a[2]),
                    !.step = 2]
    /\ lastOp' = Op("point", shader.x, shader.y, shader.b[1], shader.b[2])
    /\ ret' = << >>
    /\ calls' = calls + 1
    /\ UNCHANGED <<background_color, current_color, screen, drawVars, mainVars>>

NextOrder ==
    \/ PriorWrite
    \/ FirstCalls
    \/ SecondCalls

SpecOrder == InitOrder /\ [][NextOrder]_vars

----------------------------------------------------------------------------
(* draw_line step by step: the loop of draw_line with its own position,
   kept in `shader`, one action for an iteration that goes on and one for
   the iteration that breaks *)

\* the integer coordinates of the ends: two pixels outside the buffer on
\* either side, and every pixel inside
LineXs == (0 - 2) .. (FbWidth + 1)
LineYs == (0 - 2) .. (FbHeight + 1)

\* the state of the loop after `let mut err = dx - dy`
LineStart(p0, p1) ==
    LET x0 == AsI32(p0[1])
        y0 == AsI32(p0[2])
        x1 == AsI32(p1[1])
        y1 == AsI32(p1[2])
        dx == Abs(x1 - x0)
        dy == Abs(y1 - y0)
    IN  [p0 |-> p0, p1 |-> p1, x0 |-> x0, y0 |-> y0, x1 |-> x1, y1 |-> y1,
         dx |-> dx, dy |-> dy,
         sx |-> IF x0 < x1 THEN 1 ELSE 0 - 1,
         sy |-> IF y0 < y1 THEN 1 ELSE 0 - 1,
         err |-> dx - dy, plotted |-> 0, done |-> FALSE]

\* the end of an iteration in which err is left as it was
LineAdvance_KeepsErr(l) ==
    LET e2 == 2 * l.err
        stepx == e2 > 0 - l.dy
        stepy == e2 < l.dx
    IN  [l EXCEPT !.x0 = IF stepx THEN l.x0 + l.sx ELSE l.x0,
                  !.y0 = IF stepy THEN l.y0 + l.sy ELSE l.y0]

\* the end of an iteration: e2, the two tests and their updates
LineAdvance(l) ==
    LET e2 == 2 * l.err
        stepx == e2 > 0 - l.dy
        err1 == IF stepx THEN l.err - l.dy ELSE l.err
        stepy == e2 < l.dx
        err2 == IF stepy THEN err1 + l.dx ELSE err1
    IN  [l EXCEPT !.x0 = IF stepx THEN l.x0 + l.sx ELSE l.x0,
                  !.y0 = IF stepy THEN l.y0 + l.sy ELSE l.y0,
                  !.err = err2]

InitLine ==
    /\ InitFb
    /\ InitCalls
    /\ InitDraw
    /\ NoMain
    /\ \E ax \in LineXs, ay \in LineYs, bx \in LineXs, by \in LineYs :
          shader = LineStart(<<ax, ay, 0>>, <<bx, by, 1>>)

\* self.point(x0, y0, color, p0.z) of the running iteration
LinePoint ==
    /\ LET fb == PointFb(Fb, shader.x0, shader.y0, Gray, shader.p0[3])
       IN  /\ color_buffer' = fb.color
           /\ depth_buffer' = fb.depth
    /\ lastOp' = Op("point", shader.x0, shader.y0, Gray, shader.p0[3])
    /\ ret' = << >>
    /\ calls' = calls + 1
    /\ UNCHANGED <<background_color, current_color, screen, drawVars, mainVars>>

\* an iteration that plots and moves on
LineStep ==
    /\ ~shader.done
    /\ shader.plotted < LineFuel
    /\ ~(shader.x0 = shader.x1 /\ shader.y0 = shader.y1)
    /\ LinePoint
    /\ shader' = [LineAdvance(shader) EXCEPT !.plotted = shader.plotted + 1]

\* the iteration that plots and breaks
LineBreak ==
    /\ ~shader.done
    /\ shader.x0 = shader.x1 /\ shader.y0 = shader.y1
    /\ LinePoint
    /\ shader' = [shader EXCEPT !.plotted = shader.plotted + 1, !.done = TRUE]

NextLine ==
    \/ LineStep
    \/ LineBreak

SpecLine == InitLine /\ [][NextLine]_vars

\* the loop is not left standing while an iteration can run
SpecLineFair == SpecLine /\ WF_vars(NextLine)

----------------------------------------------------------------------------
(* The depth surface under clear, point and draw_line calls whose depth may
   be NaN or infinite; `shader` keeps the depths passed to point so far *)

DepthValues == {NegInf, 0, 1, PosInf, NaN}
DepthPositions == {<<0, 0>>, <<FbWidth - 1, FbHeight - 1>>, <<FbWidth, 0>>}
DepthLineStarts == {0, NaN}

InitDepth ==
    /\ InitFb
    /\ InitCalls
    /\ InitDraw
    /\ NoMain
    /\ shader = [passed |-> {}]

DepthClear ==
    /\ calls < MaxCalls
    /\ color_buffer' = ImageClearBackground(color_buffer, background_color)
    /\ depth_buffer' = [i \in DOMAIN depth_buffer |-> PosInf]
    /\ lastOp' = Op("clear", 0, 0, NoColor, 0)
    /\ ret' = << >>
    /\ calls' = calls + 1
    /\ UNCHANGED <<background_color, current_color, screen, drawVars, mainVars, shader>>

DepthPoint(x, y, color, depth) ==
    /\ calls < MaxCalls
    /\ LET fb == PointFb(Fb, x, y, color, depth)
       IN  /\ color_buffer' = fb.color
           /\ depth_buffer' = fb.depth
    /\ shader' = [passed |-> shader.passed \cup {depth}]
    /\ lastOp' = Op("point", x, y, color, depth)
    /\ ret' = << >>
    /\ calls' = calls + 1
    /\ UNCHANGED <<background_color, current_color, screen, drawVars, mainVars>>

\* draw_line passes p0.z to each of its point calls
DepthLine(p0, p1, color) ==
    /\ calls < MaxCalls
    /\ LET fb == DrawLineFb(Fb, p0, p1, color)
       IN  /\ color_buffer' = fb.color
           /\ depth_buffer' = fb.depth
    /\ shader' = [passed |-> shader.passed \cup {p0[3]}]
    /\ lastOp' = Op("draw_line", AsI32(p0[1]), AsI32(p0[2]), color, p0[3])
    /\ ret' = << >>
    /\ calls' = calls + 1
    /\ UNCHANGED <<background_color, current_color, screen, drawVars, mainVars>>

NextDepth ==
    \/ DepthClear
    \/ \E p \in DepthPositions, d \in DepthValues :
          DepthPoint(p[1], p[2], IF d = 0 THEN Gray ELSE Hot, d)
    \/ \E z \in DepthLineStarts :
          DepthLine(<<0, 0, z>>, <<FbWidth - 1, FbHeight - 1, 1>>, Gray)

SpecDepth == InitDepth /\ [][NextDepth]_vars

----------------------------------------------------------------------------
(* Properties of the Framebuffer *)

LastInBounds ==
    lastOp.x >= 0 /\ lastOp.x < FbWidth /\ lastOp.y >= 0 /\ lastOp.y < FbHeight
LastIndex == lastOp.y * FbWidth + lastOp.x

\* C1: a point call (also one made by draw_line) never increases the depth
\* stored for any pixel: after the call it is at most what it was before.
C1_DepthNeverIncreases ==
    [][lastOp'.op \in {"point", "draw_line"} =>
          \A i \in PixelIndices :
             /\ depth_buffer'[i] # NaN
             /\ depth_buffer'[i] <= depth_buffer[i]]_vars

\* a point call at depth 1 found the pixel at depth 0 and left it there
C1_Witness ==
    /\ lastOp.op = "point"
    /\ LastInBounds
    /\ lastOp.depth = 1
    /\ depth_buffer[LastIndex] = 0

\* C2: point on an in-bounds pixel stores its depth and its (quantized) colour
\* exactly when its depth is strictly less than the stored one; at an equal or
\* greater depth the pixel keeps both, so the earlier of two equal writes stays.
C2_WritesIffStrictlyNearer ==
    [][(lastOp'.op = "point" /\ LastInBounds') =>
          LET i == LastIndex'
              d == lastOp'.depth
              nearer == d # NaN /\ depth_buffer[i] # NaN /\ d < depth_buffer[i]
          IN  /\ nearer =>
                    /\ depth_buffer'[i] = d
                    /\ depth_buffer'[i] # depth_buffer[i]
                    /\ color_buffer'[i] = Quantized(lastOp'.color)
              /\ ~nearer =>
                    /\ depth_buffer'[i] = depth_buffer[i]
                    /\ color_buffer'[i] = color_buffer[i]]_vars

\* a point call whose depth equals the stored one did not get the pixel
C2_Witness ==
    /\ lastOp.op = "point"
    /\ LastInBounds
    /\ lastOp.depth = depth_buffer[LastIndex]
    /\ color_buffer[LastIndex] # Quantized(lastOp.color)
    /\ color_buffer[LastIndex] \in {Quantized(Gray), Quantized(Hot)}

\* C3: right after clear() every depth is +infinity and every in-bounds pixel
\* reads as the current background colour, whatever was called before.
C3_ClearResets ==
    lastOp.op = "clear" =>
       /\ \A i \in PixelIndices : depth_buffer[i] = PosInf
       /\ \A x \in 0 .. (FbWidth - 1), y \in 0 .. (FbHeight - 1) :
             get_pixel_color(x, y) = <<background_color>>

\* a clear that came after set_background_color and one more call
C3_Witness ==
    /\ lastOp.op = "clear"
    /\ calls >= 3
    /\ background_color = SpaceBlue

\* C4: point at a position outside the buffer changes no pixel's colour or
\* depth, nor the background colour or the current colour.
C4_OutOfBoundsPointIsNoOp ==
    [][(lastOp'.op = "point" /\ ~LastInBounds') => UNCHANGED fbVars]_vars

\* a point call outside a buffer that holds a farther pixel it could have taken
C4_Witness ==
    /\ lastOp.op = "point"
    /\ ~LastInBounds
    /\ lastOp.depth = 0
    /\ \E i \in PixelIndices : depth_buffer[i] = 1

----------------------------------------------------------------------------
(* Properties of the draw entry points *)

\* the fragments of a list of triangles, in order
RECURSIVE FragmentsOf(_)
FragmentsOf(tris) ==
    IF tris = << >> THEN << >>
    ELSE triangle(Head(tris)[1], Head(tris)[2], Head(tris)[3]) \o FragmentsOf(Tail(tris))

\* C6: within a draw (render_body, render_rings, render_moon) the frame buffer
\* is written in one sequential pass that starts after every vertex has been
\* transformed and the fragments of every triangle have been collected: while
\* vertices are transformed or triangles assembled or rasterized no point call
\* is made, and each step of the pass is one point call, for the next fragment.
C6_CollectThenWrite ==
    [][/\ phase \in {"vertex", "assemble", "raster"} =>
             UNCHANGED <<color_buffer, depth_buffer, calls>>
       /\ calls' # calls =>
             /\ phase = "write"
             /\ Len(transformed_vertices) = Len(vertex_array)
             /\ fragments = FragmentsOf(triangles)
             /\ UNCHANGED <<transformed_vertices, triangles, fragments>>
             /\ calls' = calls + 1
             /\ loop_i' = loop_i + 1
             /\ lastOp'.op = "point"
             /\ lastOp'.x = fragments[loop_i + 1].position[1]
             /\ lastOp'.y = fragments[loop_i + 1].position[2]
             /\ lastOp'.depth = fragments[loop_i + 1].depth]_vars

\* the write pass of a draw of two triangles has made its three point calls
C6_Witness ==
    /\ phase = "write"
    /\ Len(triangles) = 2
    /\ Len(fragments) = 3
    /\ loop_i = 3
    /\ calls = 3

\* C8: primitive assembly forms floor(n/3) triangles from n vertices, triangle
\* k being vertices 3k, 3k+1, 3k+2 in order; the trailing n mod 3 vertices are
\* in no triangle and the fragments are those of the leading triangles alone.
C8_TrianglesAreLeadingTriples ==
    LET n == Len(vertex_array)
        leading == [k \in 1 .. (n \div 3) |->
                       <<vertex_shader(vertex_array[3 * k - 2], draw_uniforms),
                         vertex_shader(vertex_array[3 * k - 1], draw_uniforms),
                         vertex_shader(vertex_array[3 * k], draw_uniforms)>>]
    IN  /\ phase \in {"raster", "write"} =>
              /\ Len(triangles) = n \div 3
              /\ triangles = leading
        /\ phase = "write" =>
              /\ fragments = FragmentsOf(leading)
              /\ n < 3 => fragments = << >>

\* five vertices gave one triangle, whose three fragments are being written
C8_Witness ==
    /\ phase = "write"
    /\ Len(vertex_array) = 5
    /\ Len(triangles) = 1
    /\ Len(fragments) = 3

----------------------------------------------------------------------------
(* Properties of the frame loop *)

DrawsPerFrame == 1 + Len(planets) + 1

\* a step that makes the Framebuffer call `name`
Calls(name) == calls' # calls /\ lastOp'.op = name

\* a step that enters render_body
EntersDraw == phase = "idle" /\ phase' # "idle"

\* log counts the clears, draws and presents of the iteration under way
LogFollows ==
    IF log'.frames # log.frames
    THEN /\ log'.frames = log.frames + 1
         /\ log'.clears = 0 /\ log'.draws = 0 /\ log'.presents = 0
    ELSE /\ log'.clears = log.clears + (IF Calls("clear") THEN 1 ELSE 0)
         /\ log'.draws = log.draws + (IF EntersDraw THEN 1 ELSE 0)
         /\ log'.presents = log.presents + (IF Calls("swap_buffers") THEN 1 ELSE 0)

\* C7: in every iteration of the frame loop the clear comes first and once,
\* every draw (sun, planets, ship) and every fragment write comes after it
\* and before the present, and the present comes once, after the last draw
\* has returned; the iteration ends with one clear, all draws and one present.
C7_ClearDrawsPresent ==
    [][/\ LogFollows
       /\ Calls("clear") => log.frames > 0 /\ log.clears = 0 /\ log.draws = 0 /\ log.presents = 0
       /\ EntersDraw => log.clears = 1 /\ log.presents = 0 /\ log.draws < DrawsPerFrame
       /\ Calls("point") => log.clears = 1 /\ log.presents = 0 /\ log.draws > 0
       /\ Calls("swap_buffers") =>
             /\ phase = "idle"
             /\ log.clears = 1 /\ log.presents = 0 /\ log.draws = DrawsPerFrame
       /\ (pc # "loop" /\ pc' = "loop" /\ log.frames > 0) =>
             /\ log'.clears = 1 /\ log'.draws = DrawsPerFrame /\ log'.presents = 1]_vars

\* the second iteration has ended: cleared once, seven draws, presented once
C7_Witness ==
    /\ pc = "loop"
    /\ log = [frames |-> 2, clears |-> 1, draws |-> DrawsPerFrame, presents |-> 1]
    /\ lastOp.op = "swap_buffers"
    /\ \E p \in PixelIndices : depth_buffer[p] # PosInf

----------------------------------------------------------------------------
(* Properties of fragment_shader *)

\* a channel brought into [0,1]
Saturate(c) ==
    IF c = NaN THEN 0 ELSE IF c < 0 THEN 0 ELSE IF c > ColorOne THEN ColorOne ELSE c

\* the channels of the call's result are numbers within [0,1]
ChannelsInRange ==
    \A k \in 1 .. 3 : shader.out[k] # NaN /\ 0 <= shader.out[k] /\ shader.out[k] <= ColorOne

\* C9: for every planet_type the call returns a colour; tags 0, 1, 2, 3, 4 and
\* 10 give what the rocky, gas, ocean, volcanic, crystal and ship shaders
\* give, brought into range, and every other tag gives gray (0.5, 0.5, 0.5).
C9_DispatchIsTotal ==
    shader.done =>
        LET t == shader.planet_type
            s == shader.surface
            tm == shader.time
        IN  /\ Len(shader.out) = 3
            /\ t = 0 => \A k \in 1 .. 3 : shader.out[k] = Saturate(rocky_planet_shader(s, tm)[k])
            /\ t = 1 => \A k \in 1 .. 3 : shader.out[k] = Saturate(gas_giant_shader(s, tm)[k])
            /\ t = 2 => \A k \in 1 .. 3 : shader.out[k] = Saturate(ocean_planet_shader(s, tm)[k])
            /\ t = 3 => \A k \in 1 .. 3 : shader.out[k] = Saturate(volcanic_planet_shader(s, tm)[k])
            /\ t = 4 => \A k \in 1 .. 3 : shader.out[k] = Saturate(crystal_planet_shader(s, tm)[k])
            /\ t = 10 => \A k \in 1 .. 3 : shader.out[k] = Saturate(ship_shader(s, tm)[k])
            /\ t \notin {0, 1, 2, 3, 4, 10} => shader.out = Gray

\* the tag of the sun was shaded, and gave gray
C9_Witness ==
    /\ shader.done
    /\ shader.planet_type = SunType
    /\ shader.out = Gray

\* C10: each channel of the colour fragment_shader returns lies in [0,1],
\* whatever the material shader it selected returned.
C10_ResultInUnitRange == shader.done => ChannelsInRange

\* the rocky shader gave a channel above 1, one below 0 and one not a number
C10_Witness ==
    /\ shader.done
    /\ shader.planet_type = 0
    /\ shader.surface.rocky = Hot
    /\ shader.out = <<ColorOne, 0, 0>>

----------------------------------------------------------------------------
(* Properties of repeated fragment_shader calls *)

----------------------------------------------------------------------------
(* Properties of a second draw over the same pixels *)

\* the draw under way is the second one and lies farther than the first
SecondIsFarther == log.draws = 2 /\ draw_uniforms.viewport_matrix[3][4] > 0

\* C12: after a draw into a cleared buffer, no step of a second draw of the
\* same vertices at a greater depth changes any pixel's colour or any stored
\* depth.
C12_FartherRedrawChangesNothing ==
    [][SecondIsFarther => UNCHANGED <<color_buffer, depth_buffer>>]_vars

\* the second, farther draw has just submitted the last of its three
\* fragments, over pixels the first draw wrote
C12_Witness ==
    /\ SecondIsFarther
    /\ phase = "write"
    /\ Len(fragments) = 3
    /\ loop_i = 3
    /\ lastOp.op = "point"
    /\ LastInBounds
    /\ depth_buffer[LastIndex] < lastOp.depth
    /\ calls = 7

----------------------------------------------------------------------------
(* Properties of startup *)

\* C13: a mesh load either yields the mesh or stops the process; when it
\* stops the process no frame-buffer call, clear, draw or present has been
\* made, and the stopped process takes no further step.
C13_FailedLoadStopsBeforeLoop ==
    [][/\ pc # "panicked"
       /\ pc = "load_sphere" => pc' = "panicked" \/ sphere_vertex_array' \in LoadedMeshes
       /\ pc = "load_nave" => pc' = "panicked" \/ nave_vertex_array' \in LoadedMeshes
       /\ (pc \in {"load_sphere", "load_nave"} /\ pc' = "panicked") =>
             /\ calls' = 0
             /\ log' = NoLog
             /\ phase' = "idle"
             /\ screen' = << >>]_vars

\* the sphere was loaded and the ship was not
C13_Witness ==
    /\ pc = "panicked"
    /\ sphere_vertex_array \in LoadedMeshes
    /\ nave_vertex_array = << >>
    /\ calls = 0

----------------------------------------------------------------------------
(* Properties of draw_line *)

\* the pixels draw_line plots between p0 and p1
PlottedPixels(p0, p1) ==
    LET plots == LinePlots(p0, p1) IN {plots[k] : k \in DOMAIN plots}

\* every pixel of the line from p0 to p1 was tested with the depth of p0: a
\* plotted pixel whose stored depth was greater now holds that depth and the
\* colour, and every other pixel is as it was
TestedWithStartDepth(p0, p1, color) ==
    \A x \in 0 .. (FbWidth - 1), y \in 0 .. (FbHeight - 1) :
        LET index == Index(x, y)
        IN  IF <<x, y>> \in PlottedPixels(p0, p1) /\ FLt(p0[3], depth_buffer[index])
            THEN /\ depth_buffer'[index] = p0[3]
                 /\ color_buffer'[index] = Quantized(color)
            ELSE /\ depth_buffer'[index] = depth_buffer[index]
                 /\ color_buffer'[index] = color_buffer[index]

\* C14: a draw_line call tests every pixel it plots with the depth of p0,
\* whatever the depth of p1 and wherever the pixel lies on the line, and
\* writes a pixel only when that depth is strictly less than the stored one.
C14_LineUsesStartDepth ==
    [][Calls("draw_line") =>
          \E l \in Lines :
             /\ AsI32(l[1][1]) = lastOp'.x
             /\ AsI32(l[1][2]) = lastOp'.y
             /\ l[1][3] = lastOp'.depth
             /\ TestedWithStartDepth(l[1], l[2], lastOp'.color)]_vars

\* a line from the first pixel to the last, whose far end has another depth,
\* left the depth of its start in both
C14_Witness ==
    /\ lastOp.op = "draw_line"
    /\ lastOp.x = 0 /\ lastOp.y = 0 /\ lastOp.depth = 0
    /\ calls = 1
    /\ depth_buffer[Index(0, 0)] = 0
    /\ depth_buffer[Index(FbWidth - 1, FbHeight - 1)] = 0

----------------------------------------------------------------------------
(* Properties of vertex_shader *)

\* the clip-space position vertex_shader computes for a vertex
ClipPosition(vertex, uniforms) ==
    multiply_matrix_vector4(uniforms.projection_matrix,
        multiply_matrix_vector4(uniforms.view_matrix,
            multiply_matrix_vector4(uniforms.model_matrix, Geometry(vertex, uniforms))))

\* what the viewport transform makes of normalized device coordinates
ToScreen(uniforms, x, y, z) ==
    LET s == multiply_matrix_vector4(uniforms.viewport_matrix, <<x, y, z, One>>)
    IN  <<s[1], s[2], s[3]>>

\* C15: a transformed vertex is the viewport transform of (x/w, y/w, z/w)
\* when the clip-space w is not 0, and of the clip coordinates (x, y, z)
\* themselves, undivided, when w is 0.
C15_PerspectiveDivideIsGuarded ==
    \A k \in 1 .. Len(transformed_vertices) :
        LET clip == ClipPosition(vertex_array[k], draw_uniforms)
            w == clip[4]
        IN  transformed_vertices[k].transformed_position =
                IF w # 0
                THEN ToScreen(draw_uniforms, (clip[1] * One) \div w,
                              (clip[2] * One) \div w, (clip[3] * One) \div w)
                ELSE ToScreen(draw_uniforms, clip[1], clip[2], clip[3])

\* six vertices were transformed: the second has w = 0 and kept its clip
\* coordinates, the sixth has another w and was divided by it
C15_Witness ==
    /\ kind = "body"
    /\ Len(transformed_vertices) = 6
    /\ ClipPosition(vertex_array[2], draw_uniforms) = <<40, 0, 0, 0>>
    /\ transformed_vertices[2].transformed_position = <<40, 0, 0>>
    /\ ClipPosition(vertex_array[6], draw_uniforms)[4] = 800
    /\ transformed_vertices[6].transformed_position[3] = One

----------------------------------------------------------------------------
(* Properties of lerp_color *)

\* v lies between p and q, ends included
Between(v, p, q) == (p <= v /\ v <= q) \/ (q <= v /\ v <= p)

\* t <= 0 gives a
LerpAtZero ==
    (shader.t # NaN /\ shader.t <= 0) => shader.out = shader.a

\* t >= 1 gives b
LerpAtOne ==
    (shader.t # NaN /\ shader.t >= Unit) => shader.out = shader.b

\* t in (0,1) gives channels between those of a and b
LerpInside ==
    (shader.t # NaN /\ 0 < shader.t /\ shader.t < Unit) =>
        \A c \in 1 .. 3 : Between(shader.out[c], shader.a[c], shader.b[c])

\* C16: lerp_color(a, b, t) is a exactly for t = 0 and every t <= 0, b
\* exactly for t = 1 and every t >= 1, and for t in (0,1) each channel lies
\* between the channels of a and b.
C16_LerpEndsExact ==
    shader.done => LerpAtZero /\ LerpAtOne /\ LerpInside

\* a call with t = 1 returned a colour that is not b
C16_Witness ==
    /\ shader.done
    /\ shader.t = Unit
    /\ shader.a = <<0, 16, Unit>>
    /\ shader.b = <<0, 3, Unit>>
    /\ shader.out = <<0, 4, Unit>>

----------------------------------------------------------------------------
(* Properties of hash and noise3d *)

\* C17: for every input, those with negative coordinates and those whose
\* sine term is negative included, hash returns a value in [0,1) and noise3d
\* returns a value in [0,1).
C17_HashAndNoiseInUnitRange ==
    shader.done =>
        /\ shader.fn = "hash" => 0 <= shader.out /\ shader.out < HashOne
        /\ shader.fn = "noise3d" => 0 <= shader.out /\ shader.out < NoiseOne

\* noise3d at (8, 0, 0), where it is hash(8), returned a negative value
C17_Witness ==
    /\ shader.done
    /\ shader.fn = "noise3d"
    /\ shader.p = <<16, 0, 0>>
    /\ HashSine[8] < 0
    /\ shader.out = 64 * hash(8)
    /\ shader.out < 0

----------------------------------------------------------------------------
(* Properties of the culler *)

\* the signed area the cull decision of an assembled triangle is taken from
SignedArea(tri) ==
    edge_function(tri[1].transformed_position, tri[2].transformed_position,
                  tri[3].transformed_position)

\* the triangles the draw under way has assembled
Assembled == {triangles[k] : k \in 1 .. Len(triangles)}

\* C18 as stated: for every assembled triangle, reversing the winding order
\* flips the cull decision; a triangle that is rasterized is discarded when
\* reversed, and a discarded one is let through when reversed.
C18_ReversalFlipsCull ==
    \A tri \in Assembled :
        LET rev == Reversed(tri)
        IN  /\ Culled(rev[1], rev[2], rev[3]) = ~Culled(tri[1], tri[2], tri[3])
            /\ triangle(tri[1], tri[2], tri[3]) # << >> =>
                  triangle(rev[1], rev[2], rev[3]) = << >>

\* C18 amended: for every assembled triangle whose signed area is not zero,
\* reversing the winding order flips the cull decision, which is the sign of
\* the signed area; a culled triangle gives no fragments, and a triangle that
\* gives fragments gives none when reversed.  A triangle of zero area is
\* culled in neither order and gives no fragments in either.
C18_ReversalFlipsCullUnlessFlat ==
    \A tri \in Assembled :
        LET rev == Reversed(tri)
            culled == Culled(tri[1], tri[2], tri[3])
            culledRev == Culled(rev[1], rev[2], rev[3])
        IN  /\ culled = (SignedArea(tri) < 0)
            /\ SignedArea(tri) # 0 => culledRev = ~culled
            /\ SignedArea(tri) = 0 =>
                  /\ ~culled /\ ~culledRev
                  /\ triangle(tri[1], tri[2], tri[3]) = << >>
                  /\ triangle(rev[1], rev[2], rev[3]) = << >>
            /\ culled => triangle(tri[1], tri[2], tri[3]) = << >>
            /\ triangle(tri[1], tri[2], tri[3]) # << >> =>
                  triangle(rev[1], rev[2], rev[3]) = << >>

\* a draw assembled a facing triangle and its reverse: the first gave the
\* three fragments being written, the second was culled
C18_Witness ==
    /\ phase = "write"
    /\ Len(triangles) = 2
    /\ SignedArea(triangles[1]) > 0
    /\ SignedArea(triangles[2]) < 0
    /\ Culled(triangles[2][1], triangles[2][2], triangles[2][3])
    /\ Len(fragments) = 3
    /\ fragments = triangle(triangles[1][1], triangles[1][2], triangles[1][3])

----------------------------------------------------------------------------
(* Properties of the colour point stores *)

\* what a channel in [0,1] or beyond it is stored as
StoredChannel(c) ==
    IF c <= 0 THEN 0
    ELSE IF c >= ColorOne THEN 255
    ELSE (c * 255) \div ColorOne

\* C19: when point writes a pixel, a channel <= 0 is stored as 0, a channel
\* >= 1 as 255, a channel c between them as the truncation of c * 255, and
\* alpha as 255; every stored channel is within 0 .. 255, whatever the value.
C19_ChannelsClampedThenQuantized ==
    [][(Calls("point") /\ LastInBounds' /\ depth_buffer'[LastIndex'] # depth_buffer[LastIndex']) =>
          LET stored == color_buffer'[LastIndex']
          IN  /\ \A k \in 1 .. 3 :
                    /\ stored[k] \in 0 .. 255
                    /\ lastOp'.color[k] # NaN => stored[k] = StoredChannel(lastOp'.color[k])
              /\ stored[4] = 255]_vars

\* a colour with a channel above 1 and one below 0 was written
C19_Witness ==
    /\ lastOp.op = "point"
    /\ lastOp.color = <<150, 0 - 20, NaN>>
    /\ calls = 1
    /\ LastInBounds
    /\ depth_buffer[LastIndex] = lastOp.depth
    /\ color_buffer[LastIndex] = <<255, 0, 0, 255>>

----------------------------------------------------------------------------
(* Properties of the order of depth-tested writes *)

\* the two depths are equal as f32 values
SameDepth == shader.a[2] # NaN /\ shader.a[2] = shader.b[2]

\* the pixel the two calls are made to
OrderIndex == Index(shader.x, shader.y)

\* both orders leave the same depth and colour when the depths differ
CommuteWhenDepthsDiffer ==
    ~SameDepth => Fb = shader.other

\* C20 as stated: with different depths both orders end in the same depth
\* and colour; with equal depths both orders end in the same depth, and the
\* colour is that of the call applied first.
C20_WritesCommuteButOnTies ==
    shader.step = 2 =>
        /\ CommuteWhenDepthsDiffer
        /\ SameDepth =>
              /\ depth_buffer = shader.other.depth
              /\ color_buffer[OrderIndex] = Quantized(shader.a[1])
              /\ shader.other.color[OrderIndex] = Quantized(shader.b[1])

\* C20 amended: with different depths both orders end in the same depth and
\* colour; with equal depths both orders end in the same depth and the second
\* call changes nothing, so the colour is that of the call applied first when
\* that depth is nearer than the one stored before the two calls, and the
\* colour stored before them otherwise.
C20_WritesCommuteFirstWinsTies ==
    shader.step = 2 =>
        /\ CommuteWhenDepthsDiffer
        /\ SameDepth =>
              /\ depth_buffer = shader.other.depth
              /\ IF FLt(shader.a[2], shader.prior.depth[OrderIndex])
                 THEN /\ color_buffer[OrderIndex] = Quantized(shader.a[1])
                      /\ shader.other.color[OrderIndex] = Quantized(shader.b[1])
                 ELSE /\ color_buffer = shader.prior.color
                      /\ shader.other.color = shader.prior.color

\* a farther call then a nearer one of another colour, and the same two the
\* other way round, left the nearer call's depth and colour in both
C20_Witness ==
    /\ shader.step = 2
    /\ shader.a = <<Gray, 1>>
    /\ shader.b = <<Hot, 0>>
    /\ calls = 2
    /\ depth_buffer[OrderIndex] = 0
    /\ color_buffer[OrderIndex] = Quantized(Hot)
    /\ shader.other = Fb

----------------------------------------------------------------------------
(* Properties of the camera mode and the warp target *)

\* the indices of the planet list
PlanetIndices == 0 .. (Len(planets) - 1)

\* C21: in every state of the main loop camera_mode is in 0..=5 and a pending
\* warp_target is in 0..=4, so planets[camera_mode - 1] and planets[target]
\* index inside the five-planet list.
C21_CameraAndWarpInRange ==
    /\ camera_mode \in 0 .. 5
    /\ camera_mode # 0 => (camera_mode - 1) \in PlanetIndices
    /\ warp_target # << >> =>
          /\ warp_target[1] \in 0 .. 4
          /\ warp_target[1] \in PlanetIndices

\* the camera follows the last planet and SPACE, pressed with FIVE, has
\* wrapped the pending target round to the first
C21_Witness ==
    /\ camera_mode = 5
    /\ warp_target = <<0>>
    /\ log.frames = 2
    /\ pc = "clear"

----------------------------------------------------------------------------
(* Properties of the loop of draw_line *)

\* max(|x1 - x0|, |y1 - y0|) + 1 for the ends p0 and p1
LongestRun == Max2(shader.dx, shader.dy) + 1

\* the first point call is at p0, the last one at p1, and no more than
\* LongestRun calls are made
PlotsFromStartToEnd ==
    /\ shader.plotted <= LongestRun
    /\ shader.plotted = 1 =>
          /\ lastOp.op = "point"
          /\ <<lastOp.x, lastOp.y>> = <<AsI32(shader.p0[1]), AsI32(shader.p0[2])>>
    /\ shader.done =>
          /\ lastOp.op = "point"
          /\ <<lastOp.x, lastOp.y>> = <<AsI32(shader.p1[1]), AsI32(shader.p1[2])>>

\* an iteration moves by at most one pixel in x and in y
MovesOnePixel ==
    /\ Abs(shader'.x0 - shader.x0) <= 1
    /\ Abs(shader'.y0 - shader.y0) <= 1

\* C22: draw_line terminates for every pair of integer ends: the loop submits
\* p0 first and p1 last, moves by at most one pixel in x and in y per
\* iteration and stops after at most max(|x1-x0|, |y1-y0|) + 1 plotted pixels.
C22_DrawLineTerminates ==
    /\ []PlotsFromStartToEnd
    /\ [][MovesOnePixel]_vars
    /\ <>shader.done

\* a line that starts outside the buffer, crosses it and ends outside, one
\* column more than rows away, ended after a point call for each column
C22_Witness ==
    /\ shader.done
    /\ shader.p0 = <<0 - 2, 0 - 1, 0>>
    /\ shader.p1 = <<FbWidth + 1, FbHeight, 1>>
    /\ shader.dx = FbWidth + 3
    /\ shader.dy = FbHeight + 1
    /\ shader.plotted = LongestRun
    /\ calls = shader.plotted
    /\ \E i \in PixelIndices : depth_buffer[i] = 0

----------------------------------------------------------------------------
(* Properties of the depth surface *)

\* every stored depth is +infinity or a non-NaN depth passed to point before
StoredDepthsWerePassed ==
    \A i \in PixelIndices :
        /\ depth_buffer[i] # NaN
        /\ \/ depth_buffer[i] = PosInf
           \/ depth_buffer[i] \in shader.passed

\* a point call, or a draw_line, with NaN for depth changes no pixel
NaNDepthChangesNothing ==
    (calls' # calls /\ lastOp'.op \in {"point", "draw_line"} /\ lastOp'.depth = NaN) =>
        UNCHANGED <<color_buffer, depth_buffer>>

\* C23: the depth surface never holds NaN: a point call whose depth is NaN
\* fails the strict comparison and changes neither the depth nor the colour of
\* the pixel, so after any sequence of new, clear, point and draw_line calls
\* every stored depth is +infinity or a non-NaN value passed to an earlier
\* point call.
C23_DepthNeverNaN ==
    /\ []StoredDepthsWerePassed
    /\ [][NaNDepthChangesNothing]_vars

\* a pixel drawn at depth 1 kept that depth and its colour through a point
\* call at the same pixel with NaN for depth
C23_Witness ==
    /\ calls = 2
    /\ lastOp = Op("point", 0, 0, Hot, NaN)
    /\ shader.passed = {1, NaN}
    /\ depth_buffer[Index(0, 0)] = 1
    /\ color_buffer[Index(0, 0)] = Quantized(Hot)

====
